---- MODULE Spec2Model ----
(***************************************************************************)
(* Json-Prompter: the template engine (TemplateEngine), the schema         *)
(* registry, the prompt generator with its auto-repair loop, the schema    *)
(* validation of utils/validation.ts, the prompt history of the component  *)
(* and the conversion of a prompt through the backend and the providers.   *)
(*                                                                         *)
(* Text is modelled character by character: a string of the program is a   *)
(* sequence of one-character strings, so that the regular expressions of   *)
(* the engine, JSON.stringify and JSON.parse are computed as the code       *)
(* computes them.  A JavaScript value is a record [t, v]: t is its type tag *)
(* and v its payload.                                                      *)
(***************************************************************************)
EXTENDS Integers, Sequences, FiniteSets, TLC

VARIABLES
    templateString,   \* the template text handed to the engine
    context,          \* the TemplateContext handed to the engine
    op,               \* the engine operation that produced result ("none" before)
    mergedContext,    \* compile's local mergedContext of the last call
    sanitizedContext, \* createSafeTemplate's local sanitizedContext of the last call
    result,           \* what the last operation returned or threw
    registry,         \* the entries of a SchemaRegistryManager, in order of registration
    registrations,    \* the number of registerSchema calls made on registry
    exported,         \* what the last exportRegistry call returned
    newRegistry,      \* the entries of the registry importRegistry was called on
    regOp,            \* the last registry operation ("none" before)
    request,          \* the input of the generatePrompt call
    pc,               \* where the generatePrompt call is: "idle", "repairing", "done"
    prompt,           \* the document the call has rendered and repaired so far
    valid,            \* the result of the call's last validation of prompt
    repairAttempts,   \* the repair passes the call has made
    response,         \* what the call returned or threw
    ajvCache,         \* the schemas the module's ajv instance has compiled
    validated,        \* the validateJsonWithSchema calls made: arguments before and after, result
    schemaChecks,     \* the validateUserSchema calls made: schema and what the call returned
    history,          \* DynamicJsonGenerator's history state: the entries, first to last
    storage,          \* localStorage's 'prompt-history' item: whether it is set, and the list it holds
    now,              \* Date.now()
    converting,       \* the handleConvert call awaiting its response: the history its closure holds
    histOp,           \* the last operation on the history ("none" before)
    isLoading,        \* DynamicJsonGenerator's isLoading state
    error,            \* its error state: the message, "" for null
    jsonResult,       \* its jsonResult state
    convRequest,      \* the ConvertRequest of the convertPromptToJSON call: prompt, provider.name, provider.apiKey
    upstream,         \* what the LLM provider answered to the backend's call
    backendResponse,  \* what POST /convert responded: status and body
    convResponse,     \* the ConvertResponse the convertPromptToJSON call resolved to
    convPc,           \* where the call is: "idle", "fetching", "responded", "returned"
    undoHistory,      \* useUndoRedo's history state, after the updates queued so far
    currentIndex,     \* useUndoRedo's currentIndex state, after the updates queued so far
    closure,          \* the currentIndex and history.length of the last render, closed over by the callbacks
    calls,            \* the callbacks called since the last render
    undoOp,           \* the last callback called ("none" before)
    localStore,       \* localStorage: the items, as pairs of key and text
    saved,            \* the save and remove calls made on storageManager, as the map they describe
    stoClock,         \* Date.now() for storageManager
    stoResult,        \* what the last load or list call resolved to
    stoOp,            \* the last call on storageManager or autoSaveManager: name, key, data
    saveTimeout,      \* AutoSaveManager's saveTimeout: a timer id, 0 for null
    timers,           \* the timers set and neither cleared nor fired: id, key, data
    timerIds,         \* the timers set so far
    architectures,    \* ArchitectureState.architectures
    currentArchitecture, \* ArchitectureState.currentArchitecture
    archOp            \* the type of the last action dispatched ("none" before)

tplVars == <<templateString, context, op, mergedContext, sanitizedContext, result>>

regVars == <<registry, registrations, exported, newRegistry, regOp>>

genVars == <<request, pc, prompt, valid, repairAttempts, response>>

valVars == <<ajvCache, validated>>

usrVars == <<schemaChecks>>

histVars == <<history, storage, now, converting, histOp, isLoading, error, jsonResult>>

convVars == <<convRequest, upstream, backendResponse, convResponse, convPc>>

undoVars == <<undoHistory, currentIndex, closure, calls, undoOp>>

stoVars == <<localStore, saved, stoClock, stoResult, stoOp, saveTimeout, timers, timerIds>>

archVars == <<architectures, currentArchitecture, archOp>>

vars == <<tplVars, regVars, genVars, valVars, usrVars, histVars, convVars, undoVars, stoVars, archVars>>

\* what the operations of one part leave alone
otherThanTpl == <<regVars, genVars, valVars, usrVars, histVars, convVars, undoVars, stoVars, archVars>>
otherThanReg == <<tplVars, genVars, valVars, usrVars, histVars, convVars, undoVars, stoVars, archVars>>
otherThanGen == <<tplVars, regVars, valVars, usrVars, histVars, convVars, undoVars, stoVars, archVars>>
otherThanVal == <<tplVars, regVars, genVars, usrVars, histVars, convVars, undoVars, stoVars, archVars>>
otherThanUsr == <<tplVars, regVars, genVars, valVars, histVars, convVars, undoVars, stoVars, archVars>>
otherThanHist == <<tplVars, regVars, genVars, valVars, usrVars, convVars, undoVars, stoVars, archVars>>
otherThanConv == <<tplVars, regVars, genVars, valVars, usrVars, histVars, undoVars, stoVars, archVars>>
otherThanUndo == <<tplVars, regVars, genVars, valVars, usrVars, histVars, convVars, stoVars, archVars>>
otherThanSto == <<tplVars, regVars, genVars, valVars, usrVars, histVars, convVars, undoVars, archVars>>
otherThanArch == <<tplVars, regVars, genVars, valVars, usrVars, histVars, convVars, undoVars, stoVars>>

-----------------------------------------------------------------------------
(* Characters *)

LowerSeq == <<"a","b","c","d","e","f","g","h","i","j","k","l","m",
              "n","o","p","q","r","s","t","u","v","w","x","y","z">>

UpperSeq == <<"A","B","C","D","E","F","G","H","I","J","K","L","M",
              "N","O","P","Q","R","S","T","U","V","W","X","Y","Z">>

DigitSeq == <<"0","1","2","3","4","5","6","7","8","9">>

Range(s) == {s[i] : i \in 1..Len(s)}

Digits == Range(DigitSeq)

\* the class \w of the engine's regular expressions
WordChars == Range(LowerSeq) \cup Range(UpperSeq) \cup Digits \cup {"_"}

\* the class [\w.]
PathChars == WordChars \cup {"."}

\* the class \s (the white space the model's texts can hold)
SpaceChars == {" ", "\n", "\t", "\r"}

\* what . does not match without the s flag
LineTerminators == {"\n", "\r"}

\* String.prototype.toUpperCase on one character
toUpperCase(c) ==
    IF \E i \in 1..Len(LowerSeq) : LowerSeq[i] = c
    THEN UpperSeq[CHOOSE i \in 1..Len(LowerSeq) : LowerSeq[i] = c]
    ELSE c

\* the character of t at i, "" outside t
At(t, i) == IF i >= 1 /\ i <= Len(t) THEN t[i] ELSE ""

\* the literal lit occurs in t at i
HasAt(t, i, lit) == \A k \in 1..Len(lit) : At(t, i + k - 1) = lit[k]

\* the end of the longest run of Class characters of t that starts at i
Span(t, i, Class) ==
    CHOOSE j \in i..(Len(t) + 1) :
        /\ At(t, j) \notin Class
        /\ \A k \in i..(j - 1) : t[k] \in Class

RECURSIVE Concat(_)
Concat(ss) == IF ss = <<>> THEN <<>> ELSE Head(ss) \o Concat(Tail(ss))

RECURSIVE JoinWith(_, _)
JoinWith(ss, sep) ==
    IF ss = <<>> THEN <<>>
    ELSE IF Len(ss) = 1 THEN ss[1]
    ELSE ss[1] \o sep \o JoinWith(Tail(ss), sep)

\* String.prototype.split on a one-character separator
RECURSIVE split(_, _)
split(s, sep) ==
    IF \E i \in 1..Len(s) : s[i] = sep
    THEN LET i == CHOOSE k \in 1..Len(s) : s[k] = sep /\ \A m \in 1..(k - 1) : s[m] # sep
         IN  <<SubSeq(s, 1, i - 1)>> \o split(SubSeq(s, i + 1, Len(s)), sep)
    ELSE <<s>>

\* the decimal digits of a natural number
RECURSIVE IntToChars(_)
IntToChars(n) ==
    IF n < 10 THEN <<DigitSeq[n + 1]>>
    ELSE IntToChars(n \div 10) \o <<DigitSeq[(n % 10) + 1]>>

-----------------------------------------------------------------------------
(* Texts of the program *)

sOpen        == <<"{", "{">>
sClose       == <<"}", "}">>
sIfOpen      == <<"{", "{", "#", "i", "f">>
sIfClose     == <<"{", "{", "/", "i", "f", "}", "}">>
sRole        == <<"r", "o", "l", "e">>
sGoals       == <<"g", "o", "a", "l", "s">>
sJson        == <<"j", "s", "o", "n">>
sDefault     == <<"d", "e", "f", "a", "u", "l", "t">>
sJoin        == <<"j", "o", "i", "n">>
sCapitalize  == <<"c", "a", "p", "i", "t", "a", "l", "i", "z", "e">>
sFormatDate  == <<"f", "o", "r", "m", "a", "t", "D", "a", "t", "e">>
sLength      == <<"l", "e", "n", "g", "t", "h">>
sTrue        == <<"t", "r", "u", "e">>
sFalse       == <<"f", "a", "l", "s", "e">>
sNull        == <<"n", "u", "l", "l">>
sUndefined   == <<"u", "n", "d", "e", "f", "i", "n", "e", "d">>
sObjectObject == <<"[", "o", "b", "j", "e", "c", "t", " ", "O", "b", "j", "e", "c", "t", "]">>
sType        == <<"t", "y", "p", "e">>
sEpochPlus1  == <<"1","9","7","0","-","0","1","-","0","1","T",
                  "0","0",":","0","0",":","0","0",".","0","0","1","Z">>

-----------------------------------------------------------------------------
(* JavaScript values *)

Str(s)   == [t |-> "str",   v |-> s]      \* s: a sequence of characters
Arr(a)   == [t |-> "arr",   v |-> a]      \* a: a sequence of values
Obj(o)   == [t |-> "obj",   v |-> o]      \* o: a sequence of <<key, value>>, keys distinct, in insertion order
Bool(b)  == [t |-> "bool",  v |-> b]
Num(n)   == [t |-> "num",   v |-> n]      \* n: a natural number
Null     == [t |-> "null",  v |-> <<>>]
Undef    == [t |-> "undef", v |-> <<>>]
Fun      == [t |-> "fun",   v |-> <<>>]   \* a function

HasKey(o, k) == \E i \in 1..Len(o) : o[i][1] = k

\* o[k] on the own properties of an object
Get(o, k) ==
    IF HasKey(o, k) THEN o[CHOOSE i \in 1..Len(o) : o[i][1] = k][2] ELSE Undef

Keys(o) == {o[i][1] : i \in 1..Len(o)}

sConstructor == <<"c", "o", "n", "s", "t", "r", "u", "c", "t", "o", "r">>

\* of the names every object inherits from Object.prototype, the one the
\* model's templates use
InheritedNames == {sConstructor}

\* o[k] on an object: an own property, or the function inherited under k
Lookup(o, k) ==
    IF HasKey(o, k) THEN Get(o, k)
    ELSE IF k \in InheritedNames THEN Fun
    ELSE Undef

\* ToBoolean
Truthy(x) ==
    CASE x.t = "str"   -> x.v # <<>>
      [] x.t = "bool"  -> x.v
      [] x.t = "num"   -> x.v # 0
      [] x.t = "arr"   -> TRUE
      [] x.t = "obj"   -> TRUE
      [] x.t = "null"  -> FALSE
      [] x.t = "undef" -> FALSE
      [] x.t = "fun"   -> TRUE

\* String(Object)
sFunctionObject ==
    <<"f", "u", "n", "c", "t", "i", "o", "n", " ", "O", "b", "j", "e", "c", "t", "(", ")", " ",
      "{", " ", "[", "n", "a", "t", "i", "v", "e", " ", "c", "o", "d", "e", "]", " ", "}">>

\* ToString of the language, as String(value) and as String.prototype.replace apply it
RECURSIVE StringOf(_)
StringOf(x) ==
    CASE x.t = "str"   -> x.v
      [] x.t = "bool"  -> IF x.v THEN sTrue ELSE sFalse
      [] x.t = "num"   -> IntToChars(x.v)
      [] x.t = "null"  -> sNull
      [] x.t = "undef" -> sUndefined
      [] x.t = "obj"   -> sObjectObject
      [] x.t = "fun"   -> sFunctionObject
      [] x.t = "arr"   ->
            JoinWith([i \in 1..Len(x.v) |->
                        IF x.v[i].t \in {"null", "undef"} THEN <<>> ELSE StringOf(x.v[i])],
                     <<",">>)

\* Array.prototype.join
arrayJoin(a, sep) ==
    JoinWith([i \in 1..Len(a) |->
                IF a[i].t \in {"null", "undef"} THEN <<>> ELSE StringOf(a[i])], sep)

\* x[key] for a truthy x: own properties of objects, indices and length of
\* arrays and strings
IsIndex(key) == Len(key) = 1 /\ key[1] \in Digits
IndexOf(key) == (CHOOSE i \in 1..10 : DigitSeq[i] = key[1]) - 1

Member(x, key) ==
    CASE x.t = "obj" -> Lookup(x.v, key)
      [] x.t = "arr" ->
            IF key = sLength THEN Num(Len(x.v))
            ELSE IF IsIndex(key) /\ IndexOf(key) < Len(x.v) THEN x.v[IndexOf(key) + 1]
            ELSE Undef
      [] x.t = "str" ->
            IF key = sLength THEN Num(Len(x.v))
            ELSE IF IsIndex(key) /\ IndexOf(key) < Len(x.v) THEN Str(<<x.v[IndexOf(key) + 1]>>)
            ELSE Undef
      [] x.t \in {"bool", "num"} -> Undef

-----------------------------------------------------------------------------
(* JSON.stringify(value, null, 2) *)

Spaces(n) == [i \in 1..n |-> " "]

\* the quoted form of a string: JSON's escapes of the characters a text can hold
quoteChar(c) ==
    CASE c = "\"" -> <<"\\", "\"">>
      [] c = "\\" -> <<"\\", "\\">>
      [] c = "\n" -> <<"\\", "n">>
      [] c = "\t" -> <<"\\", "t">>
      [] c = "\r" -> <<"\\", "r">>
      [] OTHER    -> <<c>>

quote(s) == <<"\"">> \o Concat([i \in 1..Len(s) |-> quoteChar(s[i])]) \o <<"\"">>

\* the entries of an object that JSON.stringify writes: those whose value is
\* not undefined
Written(o) == SelectSeq(o, LAMBDA e : e[2].t # "undef")

\* value is not undefined; depth is the nesting depth of the value
RECURSIVE stringifyAt(_, _)
stringifyAt(x, depth) ==
    CASE x.t = "str"   -> quote(x.v)
      [] x.t = "bool"  -> IF x.v THEN sTrue ELSE sFalse
      [] x.t = "num"   -> IntToChars(x.v)
      [] x.t = "null"  -> sNull
      [] x.t = "undef" -> sNull          \* an undefined array element
      [] x.t = "arr"   ->
            IF x.v = <<>> THEN <<"[", "]">>
            ELSE <<"[", "\n">>
                 \o JoinWith([i \in 1..Len(x.v) |->
                                Spaces(2 * (depth + 1)) \o stringifyAt(x.v[i], depth + 1)],
                             <<",", "\n">>)
                 \o <<"\n">> \o Spaces(2 * depth) \o <<"]">>
      [] x.t = "obj"   ->
            LET w == Written(x.v) IN
            IF w = <<>> THEN <<"{", "}">>
            ELSE <<"{", "\n">>
                 \o JoinWith([i \in 1..Len(w) |->
                                Spaces(2 * (depth + 1)) \o quote(w[i][1]) \o <<":", " ">>
                                \o stringifyAt(w[i][2], depth + 1)],
                             <<",", "\n">>)
                 \o <<"\n">> \o Spaces(2 * depth) \o <<"}">>

\* JSON.stringify(value, null, 2): a value, undefined for undefined
stringify(x) == IF x.t \in {"undef", "fun"} THEN Undef ELSE Str(stringifyAt(x, 0))

-----------------------------------------------------------------------------
(* The built-in helpers.  A helper call returns [threw, value, message]. *)

Returned(x) == [threw |-> FALSE, value |-> x, message |-> ""]
Thrown(m)   == [threw |-> TRUE, value |-> Undef, message |-> m]

helperNames == {sJson, sDefault, sJoin, sCapitalize, sFormatDate}

jsonHelper(x) == Returned(stringify(x))

\* value != null ? value : defaultValue, called with one argument
defaultHelper(x) == Returned(IF x.t \in {"null", "undef"} THEN Undef ELSE x)

\* Array.isArray(array) ? array.join(', ') : ''
joinHelper(x) ==
    Returned(IF x.t = "arr" THEN Str(arrayJoin(x.v, <<",", " ">>)) ELSE Str(<<>>))

capitalizeHelper(x) ==
    Returned(IF x.t = "str"
             THEN IF x.v = <<>> THEN x
                  ELSE Str(<<toUpperCase(x.v[1])>> \o SubSeq(x.v, 2, Len(x.v)))
             ELSE x)

\* new Date(date) is a valid date.  A string with no digit is no date; true is
\* the time value 1.  Arrays and objects are converted to their string first.
\* Strings with digits and numbers are outside the model's inputs.
dateIsValid(x) ==
    CASE x.t = "bool" -> TRUE
      [] x.t \in {"str", "arr", "obj"} /\ \A i \in 1..Len(StringOf(x)) : StringOf(x)[i] \notin Digits
                      -> FALSE

\* if (!date) return ''; new Date(date).toISOString() throws a RangeError on an
\* invalid date
formatDateHelper(x) ==
    IF ~Truthy(x) THEN Returned(Str(<<>>))
    ELSE IF dateIsValid(x) THEN Returned(Str(sEpochPlus1))
    ELSE Thrown("Invalid time value")

callHelper(name, x) ==
    CASE name = sJson       -> jsonHelper(x)
      [] name = sDefault    -> defaultHelper(x)
      [] name = sJoin       -> joinHelper(x)
      [] name = sCapitalize -> capitalizeHelper(x)
      [] name = sFormatDate -> formatDateHelper(x)

-----------------------------------------------------------------------------
(* TemplateEngine.compile and its three stages *)

\* path.split('.').reduce((current, key) =>
\*     current && current[key] !== undefined ? current[key] : undefined, obj)
RECURSIVE reducePath(_, _)
reducePath(current, keys) ==
    IF keys = <<>> THEN current
    ELSE reducePath(IF Truthy(current) THEN Member(current, Head(keys)) ELSE Undef,
                    Tail(keys))

getValueFromPath(obj, path) == reducePath(Obj(obj), split(path, "."))

\* { ...a, ...b }: b's entries replace a's in place or are appended, in b's order
RECURSIVE spread(_, _)
spread(a, b) ==
    IF b = <<>> THEN a
    ELSE LET e == Head(b) IN
         spread(IF HasKey(a, e[1])
                THEN [i \in 1..Len(a) |-> IF a[i][1] = e[1] THEN e ELSE a[i]]
                ELSE Append(a, e),
                Tail(b))

\* a merge that spreads the variables last
mergeContextVariablesLast(ctx) == spread(spread(ctx.defaults, ctx.conditionals), ctx.variables)

\* { ...context.defaults, ...context.variables, ...context.conditionals }
mergeContext(ctx) == spread(spread(ctx.defaults, ctx.variables), ctx.conditionals)

NoMatch == [ok |-> FALSE, name |-> <<>>, path |-> <<>>, content |-> <<>>, end |-> 0]

\* /\{\{#if\s+(\w+)\}\}(.*?)\{\{\/if\}\}/gs at position i
ifHeaderEnd(t, i) ==
    IF HasAt(t, i, sIfOpen) /\ Span(t, i + 5, SpaceChars) > i + 5
    THEN LET k == Span(t, i + 5, SpaceChars)
             m == Span(t, k, WordChars)
         IN  IF m > k /\ HasAt(t, m, sClose) THEN m + 2 ELSE 0
    ELSE 0

matchIf(t, i) ==
    LET h == ifHeaderEnd(t, i) IN
    IF h > 0 /\ \E q \in h..Len(t) : HasAt(t, q, sIfClose)
    THEN LET k == Span(t, i + 5, SpaceChars)
             q == CHOOSE q \in h..Len(t) :
                     HasAt(t, q, sIfClose) /\ \A r \in h..(q - 1) : ~HasAt(t, r, sIfClose)
         IN  [ok |-> TRUE, name |-> SubSeq(t, k, h - 3), path |-> <<>>,
              content |-> SubSeq(t, h, q - 1), end |-> q + 7]
    ELSE NoMatch

\* /\{\{(\w+)\s+([\w.]+)\}\}/g at position i
matchHelper(t, i) ==
    IF HasAt(t, i, sOpen) /\ Span(t, i + 2, WordChars) > i + 2
    THEN LET j == Span(t, i + 2, WordChars)
             k == Span(t, j, SpaceChars)
             m == Span(t, k, PathChars)
         IN  IF k > j /\ m > k /\ HasAt(t, m, sClose)
             THEN [ok |-> TRUE, name |-> SubSeq(t, i + 2, j - 1), path |-> SubSeq(t, k, m - 1),
                   content |-> <<>>, end |-> m + 2]
             ELSE NoMatch
    ELSE NoMatch

\* /\{\{([\w.]+)\}\}/g at position i
matchVariable(t, i) ==
    IF HasAt(t, i, sOpen) /\ Span(t, i + 2, PathChars) > i + 2
    THEN LET j == Span(t, i + 2, PathChars) IN
         IF HasAt(t, j, sClose)
         THEN [ok |-> TRUE, name |-> <<>>, path |-> SubSeq(t, i + 2, j - 1),
               content |-> <<>>, end |-> j + 2]
         ELSE NoMatch
    ELSE NoMatch

\* context[condition] ? content : ''
RECURSIVE conditionalsFrom(_, _, _)
conditionalsFrom(t, ctx, i) ==
    IF i > Len(t) THEN <<>>
    ELSE LET m == matchIf(t, i) IN
         IF m.ok
         THEN (IF Truthy(Lookup(ctx, m.name)) THEN m.content ELSE <<>>)
              \o conditionalsFrom(t, ctx, m.end)
         ELSE <<t[i]>> \o conditionalsFrom(t, ctx, i + 1)

processConditionals(template, ctx) == conditionalsFrom(template, ctx, 1)

\* a call of an unregistered helper replaced by nothing
unregisteredHelperDropped(t, i, m) == <<>>

\* return match: this.helpers.get(helperName) is undefined
unregisteredHelper(t, i, m) == SubSeq(t, i, m.end - 1)

\* the text after the helper stage, or the error of the first helper that throws
RECURSIVE helpersFrom(_, _, _)
helpersFrom(t, ctx, i) ==
    IF i > Len(t) THEN [threw |-> FALSE, text |-> <<>>, message |-> ""]
    ELSE LET m == matchHelper(t, i) IN
         IF m.ok /\ m.name \in helperNames
         THEN LET r == callHelper(m.name, getValueFromPath(ctx, m.path)) IN
              IF r.threw THEN [threw |-> TRUE, text |-> <<>>, message |-> r.message]
              ELSE LET rest == helpersFrom(t, ctx, m.end) IN
                   [rest EXCEPT !.text = StringOf(r.value) \o @]
         ELSE IF m.ok
         THEN LET rest == helpersFrom(t, ctx, m.end) IN
              [rest EXCEPT !.text = unregisteredHelper(t, i, m) \o @]
         ELSE LET rest == helpersFrom(t, ctx, i + 1) IN
              [rest EXCEPT !.text = <<t[i]>> \o @]

processHelpers(template, ctx) == helpersFrom(template, ctx, 1)

\* a replacement that drops the test for undefined
variableReplacementUnguarded(t, ctx, i, m) == StringOf(getValueFromPath(ctx, m.path))

\* value !== undefined ? String(value) : match
variableReplacement(t, ctx, i, m) ==
    LET value == getValueFromPath(ctx, m.path) IN
    IF value.t # "undef" THEN StringOf(value) ELSE SubSeq(t, i, m.end - 1)

RECURSIVE variablesFrom(_, _, _)
variablesFrom(t, ctx, i) ==
    IF i > Len(t) THEN <<>>
    ELSE LET m == matchVariable(t, i) IN
         IF m.ok
         THEN variableReplacement(t, ctx, i, m) \o variablesFrom(t, ctx, m.end)
         ELSE <<t[i]>> \o variablesFrom(t, ctx, i + 1)

processVariables(template, ctx) == variablesFrom(template, ctx, 1)

\* What a call returns or throws: kind is "text", "value", "names" or "error".
\* The message of an error is the sequence of its parts, outermost prefix first.
TextResult(s)   == [kind |-> "text",  text |-> s,    value |-> Undef, names |-> <<>>, message |-> <<>>]
ValueResult(x)  == [kind |-> "value", text |-> <<>>, value |-> x,     names |-> <<>>, message |-> <<>>]
NamesResult(ns) == [kind |-> "names", text |-> <<>>, value |-> Undef, names |-> ns,   message |-> <<>>]
ErrorResult(m)  == [kind |-> "error", text |-> <<>>, value |-> Undef, names |-> <<>>, message |-> m]
NoResult        == [kind |-> "none",  text |-> <<>>, value |-> Undef, names |-> <<>>, message |-> <<>>]

\* a compile without its catch clause's rethrow: the helper's error is dropped
compileHelpedNoThrow(h, merged) == TextResult(processVariables(h.text, merged))

\* processed = processVariables(processed, mergedContext), or the catch clause
compileHelped(h, merged) ==
    IF h.threw
    THEN ErrorResult(<<"Template compilation failed: ", h.message>>)
    ELSE TextResult(processVariables(h.text, merged))

\* a compile that runs the helper stage before the conditional stage
compileMergedHelpersFirst(template, merged) ==
    compileHelped([processHelpers(template, merged) EXCEPT
                       !.text = processConditionals(@, merged)], merged)

\* the three passes of compile over the merged context
compileMerged(template, merged) ==
    compileHelped(processHelpers(processConditionals(template, merged), merged), merged)

compile(template, ctx) == compileMerged(template, mergeContext(ctx))

-----------------------------------------------------------------------------
(* JSON.parse: [ok, value, pos]; pos is the position after the value.       *)
(* Strings, arrays, objects, true, false, null and natural numbers; the     *)
(* escapes \b, \f and \u, signs, fractions and exponents are not part of    *)
(* the model's texts.                                                       *)

ParseFail == [ok |-> FALSE, value |-> Undef, pos |-> 0]
Parsed(x, p) == [ok |-> TRUE, value |-> x, pos |-> p]

skipWs(t, i) == Span(t, i, SpaceChars)

unescape(c) ==
    CASE c = "\"" -> "\""
      [] c = "\\" -> "\\"
      [] c = "/"  -> "/"
      [] c = "n"  -> "\n"
      [] c = "t"  -> "\t"
      [] c = "r"  -> "\r"

\* i is a position inside a string literal, acc the characters read so far
RECURSIVE parseStringBody(_, _, _)
parseStringBody(t, i, acc) ==
    IF i > Len(t) THEN ParseFail
    ELSE IF t[i] = "\"" THEN Parsed(Str(acc), i + 1)
    ELSE IF t[i] = "\\"
         THEN IF At(t, i + 1) \in {"\"", "\\", "/", "n", "t", "r"}
              THEN parseStringBody(t, i + 2, Append(acc, unescape(t[i + 1])))
              ELSE IF At(t, i + 1) \in {"b", "f", "u"}
                   THEN CHOOSE r \in {} : TRUE      \* outside the model
                   ELSE ParseFail
    ELSE IF t[i] \in {"\n", "\t", "\r"} THEN ParseFail      \* a raw control character
    ELSE parseStringBody(t, i + 1, Append(acc, t[i]))

RECURSIVE digitsValue(_)
digitsValue(ds) ==
    IF ds = <<>> THEN 0
    ELSE 10 * digitsValue(SubSeq(ds, 1, Len(ds) - 1))
         + ((CHOOSE k \in 1..10 : DigitSeq[k] = ds[Len(ds)]) - 1)

\* 0 | [1-9][0-9]*
parseNumber(t, i) ==
    LET j == IF t[i] = "0" THEN i + 1 ELSE Span(t, i, Digits) IN
    IF At(t, j) \in {".", "e", "E"} THEN CHOOSE r \in {} : TRUE      \* outside the model
    ELSE Parsed(Num(digitsValue(SubSeq(t, i, j - 1))), j)

\* an object member set: a repeated key keeps its place and takes the last value
setMember(o, k, x) ==
    IF HasKey(o, k) THEN [i \in 1..Len(o) |-> IF o[i][1] = k THEN <<k, x>> ELSE o[i]]
    ELSE Append(o, <<k, x>>)

RECURSIVE parseValue(_, _)
RECURSIVE parseElements(_, _, _)
RECURSIVE parseMembers(_, _, _)

parseValue(t, i0) ==
    LET i == skipWs(t, i0)
        c == At(t, i)
    IN  IF c = "\"" THEN parseStringBody(t, i + 1, <<>>)
        ELSE IF c = "[" THEN
            LET j == skipWs(t, i + 1) IN
            IF At(t, j) = "]" THEN Parsed(Arr(<<>>), j + 1) ELSE parseElements(t, j, <<>>)
        ELSE IF c = "{" THEN
            LET j == skipWs(t, i + 1) IN
            IF At(t, j) = "}" THEN Parsed(Obj(<<>>), j + 1) ELSE parseMembers(t, j, <<>>)
        ELSE IF HasAt(t, i, sTrue) THEN Parsed(Bool(TRUE), i + 4)
        ELSE IF HasAt(t, i, sFalse) THEN Parsed(Bool(FALSE), i + 5)
        ELSE IF HasAt(t, i, sNull) THEN Parsed(Null, i + 4)
        ELSE IF c \in Digits THEN parseNumber(t, i)
        ELSE IF c = "-" THEN CHOOSE r \in {} : TRUE         \* outside the model
        ELSE ParseFail

parseElements(t, i, acc) ==
    LET r == parseValue(t, i) IN
    IF ~r.ok THEN ParseFail
    ELSE LET j == skipWs(t, r.pos) IN
         IF At(t, j) = "," THEN parseElements(t, j + 1, Append(acc, r.value))
         ELSE IF At(t, j) = "]" THEN Parsed(Arr(Append(acc, r.value)), j + 1)
         ELSE ParseFail

parseMembers(t, i, acc) ==
    IF At(t, i) # "\"" THEN ParseFail
    ELSE LET k == parseStringBody(t, i + 1, <<>>) IN
         IF ~k.ok THEN ParseFail
         ELSE LET c == skipWs(t, k.pos) IN
              IF At(t, c) # ":" THEN ParseFail
              ELSE LET r == parseValue(t, c + 1) IN
                   IF ~r.ok THEN ParseFail
                   ELSE LET j   == skipWs(t, r.pos)
                            o   == setMember(acc, k.value.v, r.value)
                        IN  IF At(t, j) = "," THEN parseMembers(t, skipWs(t, j + 1), o)
                            ELSE IF At(t, j) = "}" THEN Parsed(Obj(o), j + 1)
                            ELSE ParseFail

\* JSON.parse(text): the value, or a SyntaxError
JSONparse(t) ==
    LET r == parseValue(t, 1) IN
    IF r.ok /\ skipWs(t, r.pos) = Len(t) + 1 THEN r ELSE ParseFail

SyntaxErrorMessage == "Unexpected token in JSON"

-----------------------------------------------------------------------------
(* renderJsonTemplate, validateTemplate, extractVariables, createSafeTemplate *)

\* JSON.parse(rendered), or the catch clause for a SyntaxError
renderParsed(p) ==
    IF p.ok THEN ValueResult(p.value)
    ELSE ErrorResult(<<"Invalid JSON generated from template: ", SyntaxErrorMessage>>)

\* an error thrown by compile is not a SyntaxError and is thrown on
renderCompiled(rendered) ==
    IF rendered.kind = "error" THEN rendered ELSE renderParsed(JSONparse(rendered.text))

renderJsonTemplate(template, ctx) == renderCompiled(compile(template, ctx))

\* (templateString.match(/lit/g) || []).length for a two-character literal
RECURSIVE countFrom(_, _, _)
countFrom(t, lit, i) ==
    IF i > Len(t) THEN 0
    ELSE IF HasAt(t, i, lit) THEN 1 + countFrom(t, lit, i + Len(lit))
    ELSE countFrom(t, lit, i + 1)

\* String.prototype.trim
trim(t) ==
    IF \A i \in 1..Len(t) : t[i] \in SpaceChars THEN <<>>
    ELSE LET a == Span(t, 1, SpaceChars)
             b == CHOOSE j \in 1..Len(t) :
                     t[j] \notin SpaceChars /\ \A k \in (j + 1)..Len(t) : t[k] \in SpaceChars
         IN  SubSeq(t, a, b)

EmptyContext == [variables |-> <<>>, defaults |-> <<>>, conditionals |-> <<>>]

\* the errors list of validateTemplate
validateTemplateErrors(template) ==
    (IF countFrom(template, sOpen, 1) # countFrom(template, sClose, 1)
     THEN <<"Unbalanced template braces">> ELSE <<>>)
    \o
    (IF At(trim(template), 1) \in {"{", "["}
     THEN IF renderJsonTemplate(template, EmptyContext).kind = "error"
          THEN <<"Template generates invalid JSON: ">> ELSE <<>>
     ELSE <<>>)

validateTemplate(template) ==
    [valid |-> validateTemplateErrors(template) = <<>>,
     errors |-> validateTemplateErrors(template)]

\* (?:\w+\s+)?([\w.]+)\}\} at position p: the capture, or no match
matchNameAndPath(t, p) ==
    LET j == Span(t, p, WordChars)
        k == Span(t, j, SpaceChars)
        m == Span(t, k, PathChars)
        n == Span(t, p, PathChars)
    IN  IF j > p /\ k > j /\ m > k /\ HasAt(t, m, sClose)
        THEN [ok |-> TRUE, name |-> <<>>, path |-> SubSeq(t, k, m - 1), content |-> <<>>, end |-> m + 2]
        ELSE IF n > p /\ HasAt(t, n, sClose)
        THEN [ok |-> TRUE, name |-> <<>>, path |-> SubSeq(t, p, n - 1), content |-> <<>>, end |-> n + 2]
        ELSE NoMatch

\* /\{\{(?:#if\s+)?(?:\w+\s+)?([\w.]+)\}\}/g at position i
matchExtract(t, i) ==
    IF ~HasAt(t, i, sOpen) THEN NoMatch
    ELSE LET p == i + 2
             a == IF HasAt(t, p, <<"#", "i", "f">>) THEN Span(t, p + 3, SpaceChars) ELSE 0
         IN  IF a > p + 3 /\ matchNameAndPath(t, a).ok THEN matchNameAndPath(t, a)
             ELSE matchNameAndPath(t, p)

\* variables is a Set: a name is added once, in the order of first occurrence
RECURSIVE extractFrom(_, _, _)
extractFrom(t, i, variables) ==
    IF i > Len(t) THEN variables
    ELSE LET m == matchExtract(t, i) IN
         IF m.ok
         THEN LET variable == Head(split(m.path, ".")) IN
              extractFrom(t, m.end,
                          IF variable \notin helperNames /\ variable \notin Range(variables)
                          THEN Append(variables, variable) ELSE variables)
         ELSE extractFrom(t, i + 1, variables)

\* an extraction that stops after the first name
extractVariablesFirstOnly(template) ==
    IF extractFrom(template, 1, <<>>) = <<>> THEN <<>>
    ELSE <<Head(extractFrom(template, 1, <<>>))>>

\* Array.from(variables) after the loop over the matches
extractVariables(template) == extractFrom(template, 1, <<>>)

\* value.replace(/\{\{.*?\}\}/g, ''): . matches no line terminator
matchSyntax(t, i) ==
    IF HasAt(t, i, sOpen) /\ \E q \in (i + 2)..Len(t) : HasAt(t, q, sClose)
    THEN LET q == CHOOSE q \in (i + 2)..Len(t) :
                     HasAt(t, q, sClose) /\ \A r \in (i + 2)..(q - 1) : ~HasAt(t, r, sClose)
         IN  IF \A r \in (i + 2)..(q - 1) : t[r] \notin LineTerminators THEN q + 2 ELSE 0
    ELSE 0

RECURSIVE removeSyntaxFrom(_, _)
removeSyntaxFrom(t, i) ==
    IF i > Len(t) THEN <<>>
    ELSE IF matchSyntax(t, i) > 0 THEN removeSyntaxFrom(t, matchSyntax(t, i))
    ELSE <<t[i]>> \o removeSyntaxFrom(t, i + 1)

removeTemplateSyntax(s) == removeSyntaxFrom(s, 1)

sanitizeItem(item) == IF item.t = "str" THEN Str(removeTemplateSyntax(item.v)) ELSE item

RECURSIVE sanitizeContext(_)
sanitizeContext(obj) ==
    [i \in 1..Len(obj) |->
        LET value == obj[i][2] IN
        <<obj[i][1],
          CASE value.t = "str" -> Str(removeTemplateSyntax(value.v))
            [] value.t = "arr" -> Arr([k \in 1..Len(value.v) |-> sanitizeItem(value.v[k])])
            [] value.t = "obj" -> Obj(sanitizeContext(value.v))
            [] OTHER           -> value>>]

\* the context createSafeTemplate(T).render hands to renderJsonTemplate
safeContext(ctx) ==
    [variables    |-> sanitizeContext(ctx.variables),
     defaults     |-> sanitizeContext(ctx.defaults),
     conditionals |-> ctx.conditionals]

safeRender(template, ctx) == renderJsonTemplate(template, safeContext(ctx))

-----------------------------------------------------------------------------
(* SchemaRegistryManager: the entries are kept under their (name, version)  *)
(* key; exportRegistry returns a snapshot of them and importRegistry         *)
(* registers the entries of a snapshot                                      *)

\* a registration that replaces the versions the name had
registerSchemaReplacingName(reg, name, version, schema, template) ==
    Append(SelectSeq(reg, LAMBDA e : e[1][1] # name),
           <<<<name, version>>, [schema |-> schema, template |-> template]>>)

\* registerSchema(name, version, schema, template): a registered key is overwritten
registerSchema(reg, name, version, schema, template) ==
    spread(reg, << <<<<name, version>>, [schema |-> schema, template |-> template]>> >>)

\* getSchema(name, version): undefined on a miss
getSchema(reg, name, version) ==
    IF HasKey(reg, <<name, version>>) THEN Get(reg, <<name, version>>).schema ELSE Undef

\* the template registered with the schema: undefined on a miss
getTemplate(reg, name, version) ==
    IF HasKey(reg, <<name, version>>) THEN Get(reg, <<name, version>>).template ELSE Undef

\* a snapshot that leaves out the last entry registered
exportRegistryButLast(reg) ==
    [i \in 1..(Len(reg) - 1) |->
        [name |-> reg[i][1][1], version |-> reg[i][1][2],
         schema |-> reg[i][2].schema, template |-> reg[i][2].template]]

\* exportRegistry(): one record for every registered (name, version)
exportRegistry(reg) ==
    [i \in 1..Len(reg) |->
        [name |-> reg[i][1][1], version |-> reg[i][1][2],
         schema |-> reg[i][2].schema, template |-> reg[i][2].template]]

\* importRegistry(blob): every record of the snapshot is registered
RECURSIVE importRegistry(_, _)
importRegistry(reg, blob) ==
    IF blob = <<>> THEN reg
    ELSE importRegistry(registerSchema(reg, Head(blob).name, Head(blob).version,
                                       Head(blob).schema, Head(blob).template),
                        Tail(blob))

\* getVersions(name): the versions registered under the name, empty on a miss
getVersions(reg, name) ==
    [i \in 1..Len(SelectSeq(reg, LAMBDA e : e[1][1] = name)) |->
        SelectSeq(reg, LAMBDA e : e[1][1] = name)[i][1][2]]

sDollarSchema == <<"$", "s", "c", "h", "e", "m", "a">>
sDollarRef    == <<"$", "r", "e", "f">>

\* the value holds a $ref key, at the top or anywhere below it
RECURSIVE containsRef(_)
containsRef(x) ==
    CASE x.t = "obj" -> \E i \in 1..Len(x.v) : x.v[i][1] = sDollarRef \/ containsRef(x.v[i][2])
      [] x.t = "arr" -> \E i \in 1..Len(x.v) : containsRef(x.v[i])
      [] OTHER       -> FALSE

\* a check that looks for $ref among the top-level keys only
userSchemaErrorsTopLevel(schema) ==
    IF schema.t # "obj" THEN <<"Schema must be an object">>
    ELSE (IF HasKey(schema.v, sDollarSchema) THEN <<>>
          ELSE <<"Schema must declare $schema">>)
         \o (IF HasKey(schema.v, sDollarRef)
             THEN <<"Schema contains complex references">> ELSE <<>>)
         \o (IF HasKey(schema.v, sType) THEN <<>> ELSE <<"Schema must declare a type">>)

\* the reasons validateUserSchema gives against a schema
userSchemaErrors(schema) ==
    IF schema.t # "obj" THEN <<"Schema must be an object">>
    ELSE (IF HasKey(schema.v, sDollarSchema) THEN <<>>
          ELSE <<"Schema must declare $schema">>)
         \o (IF containsRef(schema)
             THEN <<"Schema contains complex references">> ELSE <<>>)
         \o (IF HasKey(schema.v, sType) THEN <<>> ELSE <<"Schema must declare a type">>)

\* validateUserSchema(schema): a result with the list of reasons, never a throw
validateUserSchema(schema) ==
    [valid |-> userSchemaErrors(schema) = <<>>, errors |-> userSchemaErrors(schema)]

RegistryFresh ==
    /\ registry = <<>>
    /\ registrations = 0
    /\ exported = <<>>
    /\ newRegistry = <<>>
    /\ regOp = "none"

-----------------------------------------------------------------------------
(* JsonPromptGenerator.generatePrompt behind PromptGeneratorAPI: the        *)
(* request is checked, the domain's adapter looked up, the document         *)
(* rendered from the adapter's defaults and the request's variables,        *)
(* validated, and repaired pass by pass while it is invalid                 *)

MaxRepairAttempts == 3

sChat    == <<"c", "h", "a", "t">>
sImage   == <<"i", "m", "a", "g", "e">>
sUnknown == <<"u", "n", "k", "n", "o", "w", "n">>

\* the domains of the DomainRegistry
registeredDomains == {sChat, sImage}

\* the adapter's defaultValues
defaultValues == << <<sRole, Str(<<"A">>)>>, <<sGoals, Arr(<<Str(<<"H">>)>>)>> >>

\* a required top-level field is empty or missing
invalidRequest(req) ==
    \/ req.domain.t # "str" \/ req.domain.v = <<>>
    \/ req.task_description.t # "str" \/ req.task_description.v = <<>>

\* the document of the domain: the request's variables over the defaults
renderPrompt(req) == spread(defaultValues, req.variables)

\* validate(document, schema) for the schema of the domain: role is
\* a required string, goals a required array of strings
validatePrompt(doc) ==
    /\ HasKey(doc, sRole) /\ Get(doc, sRole).t = "str"
    /\ HasKey(doc, sGoals) /\ Get(doc, sGoals).t = "arr"
    /\ \A i \in 1..Len(Get(doc, sGoals).v) : Get(doc, sGoals).v[i].t = "str"

\* the value of one field after a fix: a number becomes its string where a
\* string is expected, a scalar becomes a one-element array where an array is
\* expected; any other value is left as it is
repairField(key, value) ==
    IF key = sRole /\ value.t = "num" THEN Str(StringOf(value))
    ELSE IF key = sGoals /\ value.t \in {"str", "num", "bool"} THEN Arr(<<value>>)
    ELSE value

\* one repair pass: the first field a fix changes is fixed, and a missing
\* required field is filled with the adapter's default
repairPrompt(doc) ==
    IF \E i \in 1..Len(doc) : repairField(doc[i][1], doc[i][2]) # doc[i][2]
    THEN [i \in 1..Len(doc) |->
            IF i = (CHOOSE j \in 1..Len(doc) :
                       /\ repairField(doc[j][1], doc[j][2]) # doc[j][2]
                       /\ \A k \in 1..(j - 1) : repairField(doc[k][1], doc[k][2]) = doc[k][2])
            THEN <<doc[i][1], repairField(doc[i][1], doc[i][2])>>
            ELSE doc[i]]
    ELSE spread(defaultValues, doc)

\* a loop that tests the counter after the pass instead of before it
repairPendingOnePastBound(req, doc, attempts) ==
    /\ req.auto_repair
    /\ ~validatePrompt(doc)
    /\ attempts <= MaxRepairAttempts

\* a loop that makes its first pass without validating
repairPendingUnchecked(req, doc, attempts) ==
    /\ req.auto_repair
    /\ ~validatePrompt(doc) \/ attempts = 0
    /\ attempts < MaxRepairAttempts

\* the condition of the repair loop
repairPending(req, doc, attempts) ==
    /\ req.auto_repair
    /\ ~validatePrompt(doc)
    /\ attempts < MaxRepairAttempts

NoResponse == [success |-> FALSE, thrown |-> FALSE, error |-> <<>>, prompt |-> <<>>,
               valid |-> FALSE, repair_attempts |-> 0]

\* {success: false, error: 'Invalid request: ...'}
InvalidRequestResponse == [NoResponse EXCEPT !.error = <<"Invalid request">>]

\* an unknown domain is answered by the generator's error
unknownDomainReported(req) == [NoResponse EXCEPT !.error = <<"Unknown domain">>]

\* throw new Error(`Unknown domain: ${domain}`)
unknownDomain(req) ==
    [NoResponse EXCEPT !.thrown = TRUE, !.error = <<"Unknown domain: ", req.domain.v>>]

\* the result: prompt, validation.valid and meta.provenance.repair_attempts
generated(doc, attempts) ==
    [NoResponse EXCEPT !.success = TRUE, !.prompt = doc, !.valid = validatePrompt(doc),
                       !.repair_attempts = attempts]

GeneratorIdle ==
    /\ request = [domain |-> Undef, task_description |-> Undef, variables |-> <<>>,
                  auto_repair |-> FALSE]
    /\ pc = "idle"
    /\ prompt = <<>>
    /\ valid = FALSE
    /\ repairAttempts = 0
    /\ response = NoResponse

-----------------------------------------------------------------------------
(* utils/validation.ts: validateJsonWithSchema compiles the schema with the *)
(* module's ajv instance ({allErrors: true}) and maps the validator's       *)
(* errors.  The validator covers the keywords type, required, properties    *)
(* and items.                                                               *)

sProperties == <<"p", "r", "o", "p", "e", "r", "t", "i", "e", "s">>
sRequired   == <<"r", "e", "q", "u", "i", "r", "e", "d">>
sItems      == <<"i", "t", "e", "m", "s">>
sString     == <<"s", "t", "r", "i", "n", "g">>
sArray      == <<"a", "r", "r", "a", "y">>
sObject     == <<"o", "b", "j", "e", "c", "t">>
sNumber     == <<"n", "u", "m", "b", "e", "r">>

\* the data is of the JSON Schema type
typeMatches(data, type) ==
    CASE type = sString -> data.t = "str"
      [] type = sArray  -> data.t = "arr"
      [] type = sObject -> data.t = "obj"
      [] type = sNumber -> data.t = "num"
      [] OTHER          -> FALSE

\* one error object of the validator
AjvError(instancePath, schemaPath, message, data) ==
    [instancePath |-> instancePath, schemaPath |-> schemaPath, message |-> message,
     data |-> data]

\* validate.errors of the compiled schema on the data, every error collected
RECURSIVE ajvErrors(_, _, _, _)
ajvErrors(data, schema, instancePath, schemaPath) ==
    (IF HasKey(schema, sType) /\ ~typeMatches(data, Get(schema, sType).v)
     THEN <<AjvError(instancePath, schemaPath \o <<sType>>,
                     <<"must be ", Get(schema, sType).v>>, data)>>
     ELSE <<>>)
    \o
    (IF data.t = "obj" /\ HasKey(schema, sRequired)
     THEN Concat([i \in 1..Len(Get(schema, sRequired).v) |->
                    IF HasKey(data.v, Get(schema, sRequired).v[i].v) THEN <<>>
                    ELSE <<AjvError(instancePath, schemaPath \o <<sRequired>>,
                                    <<"must have required property ",
                                      Get(schema, sRequired).v[i].v>>, data)>>])
     ELSE <<>>)
    \o
    (IF data.t = "obj" /\ HasKey(schema, sProperties)
     THEN Concat([i \in 1..Len(Get(schema, sProperties).v) |->
                    IF HasKey(data.v, Get(schema, sProperties).v[i][1])
                    THEN ajvErrors(Get(data.v, Get(schema, sProperties).v[i][1]),
                                   Get(schema, sProperties).v[i][2].v,
                                   instancePath \o <<Get(schema, sProperties).v[i][1]>>,
                                   schemaPath \o <<sProperties, Get(schema, sProperties).v[i][1]>>)
                    ELSE <<>>])
     ELSE <<>>)
    \o
    (IF data.t = "arr" /\ HasKey(schema, sItems)
     THEN Concat([i \in 1..Len(data.v) |->
                    ajvErrors(data.v[i], Get(schema, sItems).v,
                              instancePath \o <<IntToChars(i - 1)>>,
                              schemaPath \o <<sItems>>)])
     ELSE <<>>)

\* ajv.compile(schema): the validator of the schema, from the cache or new
ajvCompile(cache, schema) ==
    IF \E i \in 1..Len(cache) : cache[i] = schema
    THEN cache[CHOOSE i \in 1..Len(cache) : cache[i] = schema]
    ELSE schema

\* {path: error.instancePath || error.schemaPath, message, value: error.data}
mapErrors(errors) ==
    [i \in 1..Len(errors) |->
        [path    |-> IF errors[i].instancePath # <<>> THEN errors[i].instancePath
                     ELSE errors[i].schemaPath,
         message |-> errors[i].message,
         value   |-> errors[i].data]]

\* a result that says valid whatever the validator found
validationResultValid(errors) == [valid |-> TRUE, errors |-> mapErrors(errors)]

\* the result for the validator's errors: valid is the validator's verdict
validationResult(errors) ==
    IF errors = <<>> THEN [valid |-> TRUE, errors |-> <<>>]
    ELSE [valid |-> FALSE, errors |-> mapErrors(errors)]

validateJsonWithSchema(cache, data, schema) ==
    validationResult(ajvErrors(data, ajvCompile(cache, schema), <<>>, <<<<"#">>>>))

ValidatorFresh ==
    /\ ajvCache = <<>>
    /\ validated = <<>>

-----------------------------------------------------------------------------
(* components/DynamicJsonGenerator.tsx: the prompt history.  An entry is    *)
(* [id]: its id is Date.now() at the time it is saved; its prompt, json,    *)
(* timestamp and provider are carried along and never read by the history   *)
(* operations.  The stored item is JSON.stringify of the list; the entries' *)
(* fields are strings and a value taken from a JSON response body, so the   *)
(* list read back at mount equals the list stored.                          *)

NoItem == [set |-> FALSE, list |-> <<>>]

\* a setItem that stores the list without its newest entry
ItemButNewest(list) == [set |-> TRUE, list |-> IF list = <<>> THEN <<>> ELSE Tail(list)]

\* localStorage.setItem('prompt-history', JSON.stringify(list))
Item(list) == [set |-> TRUE, list |-> list]

NotConverting == [pending |-> FALSE, history |-> <<>>]
Converting(h) == [pending |-> TRUE, history |-> h]

\* array.slice(0, n)
slice0(a, n) == SubSeq(a, 1, IF Len(a) < n THEN Len(a) ELSE n)

\* a list that keeps ten earlier entries behind the new one
saveToHistoryKeepingTen(h, newEntry) == <<newEntry>> \o slice0(h, 10)

\* saveToHistory's updatedHistory: [newEntry, ...history.slice(0, 9)]
saveToHistory(h, newEntry) == <<newEntry>> \o slice0(h, 9)

\* deleteHistoryItem's updatedHistory: history.filter(item => item.id !== id)
deleteHistoryItem(h, id) == SelectSeq(h, LAMBDA item : item.id # id)

\* the entries the history panel shows: history.slice(0, 10)
displayHistory(h) == slice0(h, 10)

\* the component before it is mounted, nothing stored
HistoryFresh ==
    /\ history = <<>>
    /\ storage = NoItem
    /\ now = 0
    /\ converting = NotConverting
    /\ histOp = "none"
    /\ isLoading = FALSE
    /\ error = ""
    /\ jsonResult = Null

-----------------------------------------------------------------------------
(* backend/index.js and services/llmService.ts: convertPromptToJSON posts   *)
(* the request to the backend's /convert, which calls the LLM provider and  *)
(* parses its completion.  A reply of the provider is [kind, statusText,    *)
(* errorText, hasContent, content]: kind "rejected" is a fetch that failed, *)
(* "status" a response that is not ok, "notJson" a body response.json()     *)
(* rejects, "noChoices" a JSON body without choices (candidates), and       *)
(* "completion" a body whose first choice holds content, or none.  An error *)
(* message is the sequence of its parts.                                    *)

\* the character U+0060, which a string of this module cannot hold
Backtick == "U+0060"

sFence     == <<Backtick, Backtick, Backtick>>
sFenceJson == sFence \o <<"j", "s", "o", "n">>

\* content.replace(/lit\n?/g, '') for a literal lit, from position i on
RECURSIVE removeFence(_, _, _)
removeFence(t, lit, i) ==
    IF i > Len(t) THEN <<>>
    ELSE IF HasAt(t, i, lit)
         THEN removeFence(t, lit, i + Len(lit) + (IF At(t, i + Len(lit)) = "\n" THEN 1 ELSE 0))
         ELSE <<t[i]>> \o removeFence(t, lit, i + 1)

\* content.replace(/FENCEjson\n?/g, '').replace(/FENCE\n?/g, '').trim(), FENCE
\* being three U+0060
cleanContent(content) == trim(removeFence(removeFence(content, sFenceJson, 1), sFence, 1))

\* return JSON.parse(text), or the SyntaxError it throws
parseCompletion(p) ==
    IF p.ok THEN ValueResult(p.value) ELSE ErrorResult(<<SyntaxErrorMessage>>)

\* what the three calls do alike before they read the content
callFailure(reply, notOk) ==
    CASE reply.kind = "rejected"  -> ErrorResult(<<"fetch failed">>)
      [] reply.kind = "status"    -> ErrorResult(notOk)
      [] reply.kind = "notJson"   -> ErrorResult(<<SyntaxErrorMessage>>)
      [] reply.kind = "noChoices" -> ErrorResult(<<"Cannot read properties of undefined (reading '0')">>)

\* data.choices[0]?.message?.content?.trim() is falsy
noContent(reply) == ~reply.hasContent \/ trim(reply.content) = <<>>

callOpenAI(reply) ==
    IF reply.kind # "completion"
    THEN callFailure(reply, <<"OpenAI API error: ", reply.statusText>>)
    ELSE IF noContent(reply) THEN ErrorResult(<<"No response from OpenAI">>)
    ELSE parseCompletion(JSONparse(trim(reply.content)))

callOpenRouter(reply) ==
    IF reply.kind # "completion"
    THEN callFailure(reply, <<"OpenRouter API error: ", reply.statusText, " - ", reply.errorText>>)
    ELSE IF noContent(reply) THEN ErrorResult(<<"No response from OpenRouter">>)
    ELSE parseCompletion(JSONparse(cleanContent(trim(reply.content))))

callGemini(reply) ==
    IF reply.kind # "completion"
    THEN callFailure(reply, <<"Gemini API error: ", reply.statusText, " - ", reply.errorText>>)
    ELSE IF noContent(reply) THEN ErrorResult(<<"No response from Gemini">>)
    ELSE parseCompletion(JSONparse(cleanContent(trim(reply.content))))

sTask           == <<"t", "a", "s", "k">>
sProcessRequest == <<"p", "r", "o", "c", "e", "s", "s", " ", "r", "e", "q", "u", "e", "s", "t">>

\* mockConvertPromptToJSON's mockJson for a prompt that holds none of its
\* keywords and no digit; inputType and timestamp are left out
mockJson(p) == Obj(<< <<sTask, Str(sProcessRequest)>> >>)

RealProviders == {"openai", "openrouter", "gemini"}

\* the provider's call is reached: the prompt and the key are there
callsProvider(body) ==
    body.prompt # <<>> /\ body.provider \in RealProviders /\ body.apiKey # ""

BackendResponse(status, success, json, err) ==
    [status |-> status, body |-> [success |-> success, json |-> json, error |-> err]]

\* no response: the fetch of /convert failed
NoBackendResponse == BackendResponse(0, FALSE, Undef, <<>>)

\* res.json({success: true, ...}), or the catch clause's res.status(500).json(...)
converted(r) ==
    IF r.kind = "error"
    THEN BackendResponse(500, FALSE, Undef,
             IF r.message = <<>> THEN <<"Failed to convert prompt to JSON">> ELSE r.message)
    ELSE BackendResponse(200, TRUE, r.value, <<>>)

\* app.post('/convert'): body is req.body, reply what the provider answers if called
postConvert(body, reply) ==
    IF body.prompt = <<>>
    THEN BackendResponse(400, FALSE, Undef, <<"Prompt is required">>)
    ELSE CASE body.provider = "openai" ->
                IF body.apiKey = ""
                THEN BackendResponse(400, FALSE, Undef, <<"API key is required for OpenAI">>)
                ELSE converted(callOpenAI(reply))
           [] body.provider = "openrouter" ->
                IF body.apiKey = ""
                THEN BackendResponse(400, FALSE, Undef, <<"API key is required for OpenRouter">>)
                ELSE converted(callOpenRouter(reply))
           [] body.provider = "gemini" ->
                IF body.apiKey = ""
                THEN BackendResponse(400, FALSE, Undef, <<"API key is required for Gemini">>)
                ELSE converted(callGemini(reply))
           [] OTHER -> converted(ValueResult(mockJson(body.prompt)))

\* response.statusText of the statuses /convert responds with
statusText(status) ==
    CASE status = 200 -> "OK"
      [] status = 400 -> "Bad Request"
      [] status = 500 -> "Internal Server Error"

\* a callBackendAPI that returns data.json whatever the response says
callBackendAPIUnchecked(resp) == ValueResult(resp.body.json)

\* callBackendAPI: the body's json read back from the response is the value
\* the backend wrote, itself the result of a JSON.parse or the mock object
callBackendAPI(resp) ==
    IF resp.status = 0 THEN ErrorResult(<<"Failed to fetch">>)
    ELSE IF resp.status < 200 \/ resp.status > 299
         THEN ErrorResult(<<"Backend API error: ", statusText(resp.status)>>)
    ELSE IF ~resp.body.success
         THEN ErrorResult(IF resp.body.error = <<>> THEN <<"Backend conversion failed">>
                          ELSE resp.body.error)
    ELSE ValueResult(resp.body.json)

ConvertResponse(json, provider, success, err) ==
    [json |-> json, provider |-> provider, success |-> success, error |-> err]

NoConvertResponse == ConvertResponse(Undef, "", FALSE, <<>>)

mockConvertPromptToJSON(p) == ConvertResponse(mockJson(p), "mock", TRUE, <<>>)

\* convertPromptToJSON once callBackendAPI has returned or thrown r: the inner
\* catch clause drops backendError and falls back to the mock or throws its
\* own error, which the outer catch clause turns into the failure
convertReturned(req, r) ==
    IF r.kind = "value" THEN ConvertResponse(r.value, req.provider, TRUE, <<>>)
    ELSE IF req.provider = "mock" THEN mockConvertPromptToJSON(req.prompt)
    ELSE ConvertResponse(Null, req.provider, FALSE,
             <<"Backend API is required for real LLM providers. Please start the backend server or use demo mode.">>)

convertPromptToJSON(req, resp) == convertReturned(req, callBackendAPI(resp))

NoReply == [kind |-> "none", statusText |-> "", errorText |-> "",
            hasContent |-> FALSE, content |-> <<>>]

ConvertIdle ==
    /\ convRequest = [prompt |-> <<>>, provider |-> "", apiKey |-> ""]
    /\ upstream = NoReply
    /\ backendResponse = NoBackendResponse
    /\ convResponse = NoConvertResponse
    /\ convPc = "idle"

-----------------------------------------------------------------------------
(* useUndoRedo(initialState, maxHistorySize).  The callbacks of one render   *)
(* close over that render's currentIndex and history.length; the updater    *)
(* functions they queue are applied in order to the latest state.           *)

MaxHistorySize == 3

\* a.slice(0, end): a negative end counts from the end of the array
sliceTo(a, end) ==
    LET e == IF end < 0 THEN Len(a) + end ELSE end
    IN  IF e <= 0 THEN <<>> ELSE SubSeq(a, 1, IF e > Len(a) THEN Len(a) ELSE e)

\* addToHistory's updater of history, with the currentIndex of its closure
addedHistory(prev, index, newState) ==
    LET newHistory == Append(sliceTo(prev, index + 1), newState)
    IN  IF Len(newHistory) > MaxHistorySize THEN Tail(newHistory) ELSE newHistory

\* addToHistory's updater of currentIndex
addedIndex(prev) == IF prev + 1 < MaxHistorySize - 1 THEN prev + 1 ELSE MaxHistorySize - 1

\* history[currentIndex]
currentState(h, index) == IF index \in 0..(Len(h) - 1) THEN Num(h[index + 1]) ELSE Undef

Closure(index, length) == [currentIndex |-> index, length |-> length]

UndoFresh ==
    /\ undoHistory = <<0>>
    /\ currentIndex = 0
    /\ closure = Closure(0, 1)
    /\ calls = 0
    /\ undoOp = "none"

-----------------------------------------------------------------------------
(* The architecture reducer                                                 *)

\* null, and an Architecture: its id and its templates, each an id and a body
NoArchitecture == [id |-> "", templates |-> <<>>, isNull |-> TRUE]
Architecture(id, templates) == [id |-> id, templates |-> templates, isNull |-> FALSE]
PromptTemplate(id, body) == [id |-> id, body |-> body]

ArchitectureState(archs, current) == [architectures |-> archs, currentArchitecture |-> current]

\* an action: the fields of the payload its type does not use are empty
ArchitectureAction(type, arch, architectureId, template, templateId) ==
    [type |-> type, architecture |-> arch, architectureId |-> architectureId,
     template |-> template, templateId |-> templateId]

\* a.map(x => x.id === id ? f(x) : x) for the three changes of templates
WithTemplates(arch, templates) == [arch EXCEPT !.templates = templates]

addedTemplates(templates, template) == Append(templates, template)

updatedTemplates(templates, template) ==
    [i \in 1..Len(templates) |->
        IF templates[i].id = template.id THEN template ELSE templates[i]]

deletedTemplates(templates, templateId) ==
    SelectSeq(templates, LAMBDA t : t.id # templateId)

\* the templates of an architecture after a template action
changedTemplates(templates, action) ==
    CASE action.type = "ADD_TEMPLATE"    -> addedTemplates(templates, action.template)
      [] action.type = "UPDATE_TEMPLATE" -> updatedTemplates(templates, action.template)
      [] action.type = "DELETE_TEMPLATE" -> deletedTemplates(templates, action.templateId)

\* state.currentArchitecture?.id === id
currentIs(state, id) ==
    ~state.currentArchitecture.isNull /\ state.currentArchitecture.id = id

\* a DELETE_ARCHITECTURE that keeps the current architecture
deletedCurrentKept(state, id) == state.currentArchitecture

\* DELETE_ARCHITECTURE's currentArchitecture
deletedCurrent(state, id) ==
    IF currentIs(state, id) THEN NoArchitecture ELSE state.currentArchitecture

architectureReducer(state, action) ==
    CASE action.type = "ADD_ARCHITECTURE" ->
            ArchitectureState(Append(state.architectures, action.architecture),
                              action.architecture)
      [] action.type = "UPDATE_ARCHITECTURE" ->
            ArchitectureState(
                [i \in 1..Len(state.architectures) |->
                    IF state.architectures[i].id = action.architecture.id
                    THEN action.architecture ELSE state.architectures[i]],
                IF currentIs(state, action.architecture.id)
                THEN action.architecture ELSE state.currentArchitecture)
      [] action.type = "DELETE_ARCHITECTURE" ->
            ArchitectureState(
                SelectSeq(state.architectures, LAMBDA arch : arch.id # action.architectureId),
                deletedCurrent(state, action.architectureId))
      [] action.type \in {"ADD_TEMPLATE", "UPDATE_TEMPLATE", "DELETE_TEMPLATE"} ->
            ArchitectureState(
                [i \in 1..Len(state.architectures) |->
                    IF state.architectures[i].id = action.architectureId
                    THEN WithTemplates(state.architectures[i],
                                       changedTemplates(state.architectures[i].templates, action))
                    ELSE state.architectures[i]],
                IF currentIs(state, action.architectureId)
                THEN WithTemplates(state.currentArchitecture,
                                   changedTemplates(state.currentArchitecture.templates, action))
                ELSE state.currentArchitecture)
      [] OTHER -> state

ArchitectureFresh ==
    /\ architectures = <<>>
    /\ currentArchitecture = NoArchitecture
    /\ archOp = [type |-> "none", architectureId |-> ""]

-----------------------------------------------------------------------------
(* LocalStorageManager and AutoSaveManager                                  *)

sStoragePrefix == <<"j", "s", "o", "n", "-", "p", "r", "o", "m", "p", "t", "e", "r", "-">>
sPromptHistory == <<"p", "r", "o", "m", "p", "t", "-", "h", "i", "s", "t", "o", "r", "y">>
sDataKey == <<"d", "a", "t", "a">>
sTimestamp == <<"t", "i", "m", "e", "s", "t", "a", "m", "p">>
sVersionKey == <<"v", "e", "r", "s", "i", "o", "n">>
sVersion100 == <<"1", ".", "0", ".", "0">>

\* a map kept as a sequence of pairs: with the entry set, and without it
withEntry(o, k, x) ==
    IF HasKey(o, k) THEN [i \in 1..Len(o) |-> IF o[i][1] = k THEN <<k, x>> ELSE o[i]]
    ELSE Append(o, <<k, x>>)
withoutEntry(o, k) == SelectSeq(o, LAMBDA e : e[1] # k)

\* a key that is the prefix alone
storageKeyShared(key) == sStoragePrefix

\* this.prefix + key
storageKey(key) == sStoragePrefix \o key

\* JSON.stringify({data, timestamp: Date.now(), version: '1.0.0'}); the text
\* is laid out as stringify lays it out, which only JSON.parse reads
serialized(data, timestamp) ==
    stringify(Obj(<< <<sDataKey, data>>, <<sTimestamp, Num(timestamp)>>,
                     <<sVersionKey, Str(sVersion100)>> >>)).v

\* LocalStorageManager.save: localStorage after the call
saveItem(store, key, data, timestamp) ==
    withEntry(store, storageKey(key), serialized(data, timestamp))

\* LocalStorageManager.remove
removeItem(store, key) == withoutEntry(store, storageKey(key))

\* what a call resolved to, or that it threw
Resolved(x) == [threw |-> FALSE, value |-> x]

\* LocalStorageManager.load: null for no item; parsed.data of the item; null
\* from the catch clause when JSON.parse throws or parsed has no members
load(store, key) ==
    IF ~HasKey(store, storageKey(key)) \/ Get(store, storageKey(key)) = <<>>
    THEN Resolved(Null)
    ELSE LET parsed == JSONparse(Get(store, storageKey(key)))
         IN  IF ~parsed.ok \/ parsed.value.t \in {"null", "undef"} THEN Resolved(Null)
             ELSE Resolved(Member(parsed.value, sDataKey))

\* LocalStorageManager.list: the keys that start with the prefix, without it
listKeys(store) ==
    LET prefixed == SelectSeq(store, LAMBDA e : HasAt(e[1], 1, sStoragePrefix))
    IN  Resolved(Arr([i \in 1..Len(prefixed) |->
                        Str(SubSeq(prefixed[i][1], Len(sStoragePrefix) + 1, Len(prefixed[i][1])))]))

\* a clearTimeout that leaves the timer running
clearTimeoutIgnored(ts, id) == ts

\* clearTimeout(id) on the timers that are set
clearTimeout(ts, id) == SelectSeq(ts, LAMBDA t : t.id # id)

StoOp(name, key, data) == [name |-> name, key |-> key, data |-> data]

StorageFresh ==
    /\ localStore = <<>>
    /\ saved = <<>>
    /\ stoClock = 1
    /\ stoResult = Resolved(Undef)
    /\ stoOp = StoOp("none", <<>>, Undef)
    /\ saveTimeout = 0
    /\ timers = <<>>
    /\ timerIds = 0

-----------------------------------------------------------------------------
(* The engine's operations as actions: each is applied once to the input    *)
(* (templateString, context) the initial state holds.                       *)

Compile ==
    /\ op = "none"
    /\ op' = "compile"
    /\ mergedContext' = mergeContext(context)
    /\ result' = compile(templateString, context)
    /\ UNCHANGED <<templateString, context, sanitizedContext>>
    /\ UNCHANGED otherThanTpl

RenderJsonTemplate ==
    /\ op = "none"
    /\ op' = "renderJsonTemplate"
    /\ mergedContext' = mergeContext(context)
    /\ result' = renderJsonTemplate(templateString, context)
    /\ UNCHANGED <<templateString, context, sanitizedContext>>
    /\ UNCHANGED otherThanTpl

ValidateTemplate ==
    /\ op = "none"
    /\ op' = "validateTemplate"
    /\ result' = [NoResult EXCEPT !.kind = IF validateTemplate(templateString).valid
                                          THEN "valid" ELSE "invalid",
                                  !.message = validateTemplate(templateString).errors]
    /\ UNCHANGED <<templateString, context, mergedContext, sanitizedContext>>
    /\ UNCHANGED otherThanTpl

ExtractVariables ==
    /\ op = "none"
    /\ op' = "extractVariables"
    /\ result' = NamesResult(extractVariables(templateString))
    /\ UNCHANGED <<templateString, context, mergedContext, sanitizedContext>>
    /\ UNCHANGED otherThanTpl

\* createSafeTemplate(templateString).render(context)
SafeRender ==
    /\ op = "none"
    /\ op' = "safeRender"
    /\ sanitizedContext' = safeContext(context)
    /\ mergedContext' = mergeContext(safeContext(context))
    /\ result' = safeRender(templateString, context)
    /\ UNCHANGED <<templateString, context>>
    /\ UNCHANGED otherThanTpl

NextEngine ==
    \/ Compile
    \/ RenderJsonTemplate
    \/ ValidateTemplate
    \/ ExtractVariables
    \/ SafeRender

\* the engine before any call, given its input
EngineStart(template, ctx) ==
    /\ templateString = template
    /\ context = ctx
    /\ op = "none"
    /\ mergedContext = <<>>
    /\ sanitizedContext = EmptyContext
    /\ result = NoResult
    /\ RegistryFresh
    /\ GeneratorIdle
    /\ ValidatorFresh
    /\ schemaChecks = <<>>
    /\ HistoryFresh
    /\ ConvertIdle
    /\ UndoFresh
    /\ StorageFresh
    /\ ArchitectureFresh

SeqsUpTo(S, n) == UNION {[1..k -> S] : k \in 0..n}

Context(vs, ds, cs) == [variables |-> vs, defaults |-> ds, conditionals |-> cs]

-----------------------------------------------------------------------------
(* Rendering {"role": "{{role}}", "goals": {{json goals}}}                  *)

MaxRoleLen == 2
MaxGoals   == 2

\* '{"role": "{{role}}", "goals": {{json goals}}}'
RoleGoalsTemplate ==
    <<"{", "\"">> \o sRole \o <<"\"", ":", " ", "\"">> \o sOpen \o sRole \o sClose
    \o <<"\"", ",", " ", "\"">> \o sGoals \o <<"\"", ":", " ">>
    \o sOpen \o sJson \o <<" ">> \o sGoals \o sClose \o <<"}">>

RoleChars == {"A", " ", "\"", "\\"}

GoalStrings == {<<"H">>, <<"\"">>, sOpen \o sRole \o sClose}

InitRender ==
    \E role \in SeqsUpTo(RoleChars, MaxRoleLen), goals \in SeqsUpTo(GoalStrings, MaxGoals) :
        EngineStart(RoleGoalsTemplate,
                    Context(<< <<sRole, Str(role)>>,
                               <<sGoals, Arr([i \in 1..Len(goals) |-> Str(goals[i])])>> >>,
                            <<>>, <<>>))

SpecRender == InitRender /\ [][NextEngine]_vars

\* the object the template is meant to render: role and goals of the context
RoleGoalsObject(ctx) ==
    Obj(<< <<sRole, Get(ctx.variables, sRole)>>, <<sGoals, Get(ctx.variables, sGoals)>> >>)

\* C1: renderJsonTemplate on {"role": "{{role}}", "goals": {{json goals}}}
\* returns, for every string role and every array of strings goals, the
\* object whose role and goals equal the context's values.
C1_RenderReturnsContextValues ==
    op = "renderJsonTemplate" => result = ValueResult(RoleGoalsObject(context))

\* a rendering that does return the context's values, goals not empty
C1_RenderedPlainValues ==
    /\ op = "renderJsonTemplate"
    /\ Get(context.variables, sGoals).v # <<>>
    /\ result = ValueResult(RoleGoalsObject(context))

-----------------------------------------------------------------------------
(* Compiling templates put together from tokens and literal text            *)

MaxPieces == 2

sA == <<"a">>
sB == <<"b">>

\* {{a}}  {{a.b}}  {{json a}}  {{formatDate a}}  x  [  {{#if a}}x{{/if}}
Pieces ==
    { sOpen \o sA \o sClose,
      sOpen \o sA \o <<".">> \o sB \o sClose,
      sOpen \o sJson \o <<" ">> \o sA \o sClose,
      sOpen \o sFormatDate \o <<" ">> \o sA \o sClose,
      <<"x">>,
      <<"[">>,
      sIfOpen \o <<" ">> \o sA \o sClose \o <<"x">> \o sIfClose }

\* {}   {a: "v"}   {a: {b: "w"}}
PieceVariables ==
    { <<>>,
      << <<sA, Str(<<"v">>)>> >>,
      << <<sA, Obj(<< <<sB, Str(<<"w">>)>> >>)>> >> }

InitCompile ==
    \E ps \in SeqsUpTo(Pieces, MaxPieces), vs \in PieceVariables :
        EngineStart(Concat(ps), Context(vs, <<>>, <<>>))

SpecCompile == InitCompile /\ [][NextEngine]_vars

\* T holds no {{#if flag}}...{{/if}} block and no call of a registered helper
PlainTokensOnly(t) ==
    \A i \in 1..Len(t) :
        /\ ~matchIf(t, i).ok
        /\ ~(matchHelper(t, i).ok /\ matchHelper(t, i).name \in helperNames)

\* none of the paths of T's {{path}} tokens resolves to a defined value
NoPathResolves(t, ctx) ==
    \A i \in 1..Len(t) :
        matchVariable(t, i).ok
            => getValueFromPath(mergeContext(ctx), matchVariable(t, i).path) = Undef

\* C2: for a template of literal text and plain {{path}} tokens and a context
\* in which no referenced path resolves to a defined value, compile does not
\* throw and returns the template unchanged.
C2_UnresolvedTokensStay ==
    (op = "compile" /\ PlainTokensOnly(templateString) /\ NoPathResolves(templateString, context))
        => result = TextResult(templateString)

\* compile has run on a template with a {{path}} token whose root the context
\* defines but whose path resolves to nothing
C2_UnresolvedTokenCompiled ==
    /\ op = "compile"
    /\ PlainTokensOnly(templateString) /\ NoPathResolves(templateString, context)
    /\ context.variables # <<>>
    /\ \E i \in 1..Len(templateString) : matchVariable(templateString, i).ok

\* a {{formatDate path}} call of the template gets a value that is no date
HelperThrows(t, ctx) ==
    \E i \in 1..Len(t) :
        /\ matchHelper(t, i).ok
        /\ matchHelper(t, i).name = sFormatDate
        /\ Truthy(getValueFromPath(mergeContext(ctx), matchHelper(t, i).path))
        /\ ~dateIsValid(getValueFromPath(mergeContext(ctx), matchHelper(t, i).path))

BeginsLikeJson(t) == At(trim(t), 1) \in {"{", "["}

\* C3 as amended: compile fails exactly when a helper throws, with the message
\* "Template compilation failed: " followed by the helper's message, and
\* returns text otherwise, valid JSON or not; it is renderJsonTemplate that
\* fails, with "Invalid JSON generated from template: ...", when the compiled
\* text does not parse, and that throws compile's error on unchanged.
C3_CompileFailsWhenHelperThrows ==
    /\ op = "compile" =>
            IF HelperThrows(templateString, context)
            THEN result = ErrorResult(<<"Template compilation failed: ", "Invalid time value">>)
            ELSE result.kind = "text"
    /\ op = "renderJsonTemplate" =>
            IF HelperThrows(templateString, context)
            THEN result = ErrorResult(<<"Template compilation failed: ", "Invalid time value">>)
            ELSE \/ result.kind = "value"
                 \/ result = ErrorResult(<<"Invalid JSON generated from template: ",
                                           SyntaxErrorMessage>>)

\* compile has returned text that is no JSON for a template beginning with [
C3_CompiledInvalidJsonText ==
    /\ op = "compile"
    /\ BeginsLikeJson(templateString)
    /\ result.kind = "text"
    /\ ~JSONparse(result.text).ok

\* C3 as stated: compile fails when the template begins with { or [ and the
\* rendered text does not parse as JSON.
C3_CompileFailsOnInvalidJson ==
    (op = "compile" /\ BeginsLikeJson(templateString) /\ result.kind = "text")
        => JSONparse(result.text).ok

-----------------------------------------------------------------------------
(* Compiling with keys that several maps of the context define              *)

MergeKeys == {sA, sB}

\* the entries one map can hold: each key absent or with one of the values
MapsOver(values) ==
    {<<>>} \cup {<< <<k, v>> >> : k \in MergeKeys, v \in values}
           \cup {<< <<sA, v>>, <<sB, w>> >> : v \in values, w \in values}
           \cup {<< <<sB, w>>, <<sA, v>> >> : v \in values, w \in values}

\* {{a}}{{b}}   {{#if a}}x{{/if}}{{b}}
MergeTemplates ==
    { sOpen \o sA \o sClose \o sOpen \o sB \o sClose,
      sIfOpen \o <<" ">> \o sA \o sClose \o <<"x">> \o sIfClose \o sOpen \o sB \o sClose }

InitMerge ==
    \E t \in MergeTemplates,
       ds \in MapsOver({Str(<<"d">>)}),
       vs \in MapsOver({Str(<<"v">>), Undef}),
       cs \in MapsOver({Bool(TRUE), Bool(FALSE)}) :
        EngineStart(t, Context(vs, ds, cs))

SpecMerge == InitMerge /\ [][NextEngine]_vars

\* the value of a key under conditionals over variables over defaults
Precedence(ctx, k) ==
    IF HasKey(ctx.conditionals, k) THEN Get(ctx.conditionals, k)
    ELSE IF HasKey(ctx.variables, k) THEN Get(ctx.variables, k)
    ELSE Get(ctx.defaults, k)

\* C5: compile builds one merged context in which, for a key several maps
\* define, the conditionals' value overrides the variables' value, which
\* overrides the defaults' value, and the compiled text shows that value; the
\* maps of the context are not modified.
C5_MergePrecedence ==
    [][op' = "compile" =>
          /\ context' = context
          /\ Keys(mergedContext') =
                 Keys(context.defaults) \cup Keys(context.variables) \cup Keys(context.conditionals)
          /\ \A k \in Keys(mergedContext') : Get(mergedContext', k) = Precedence(context, k)
          /\ result' = compileMerged(templateString,
                                      [i \in 1..Len(mergedContext') |->
                                          <<mergedContext'[i][1],
                                            Precedence(context, mergedContext'[i][1])>>])
      ]_vars

\* compile has run on a context whose three maps all define the key a
C5_CompiledOverlappingMaps ==
    /\ op = "compile"
    /\ HasKey(context.defaults, sA) /\ HasKey(context.variables, sA)
    /\ HasKey(context.conditionals, sA)
    /\ HasKey(context.defaults, sB) /\ HasKey(context.variables, sB)
    /\ ~HasKey(context.conditionals, sB)
    /\ result.kind = "text"

-----------------------------------------------------------------------------
(* Rendering through createSafeTemplate with template syntax in the values  *)

sInjected == sOpen \o sB \o sClose

\* "{{b}}"  "x{{b}}"  "{{\n}}"  ["{{b}}"]  {b: "{{b}}"}  [["{{b}}"]]  [{b: "{{b}}"}]
InjectedValues ==
    { Str(sInjected),
      Str(<<"x">> \o sInjected),
      Str(sOpen \o <<"\n">> \o sClose),
      Arr(<<Str(sInjected)>>),
      Obj(<< <<sB, Str(sInjected)>> >>),
      Arr(<<Arr(<<Str(sInjected)>>)>>),
      Arr(<<Obj(<< <<sB, Str(sInjected)>> >>)>>) }

\* ["{{a}}"]   {{json a}}
SafeTemplates ==
    { <<"[", "\"">> \o sOpen \o sA \o sClose \o <<"\"", "]">>,
      sOpen \o sJson \o <<" ">> \o sA \o sClose }

InitSafe ==
    \E t \in SafeTemplates,
       v \in InjectedValues,
       ds \in {<<>>} \cup {<< <<sA, d>> >> : d \in {Str(sInjected), Arr(<<Arr(<<Str(sInjected)>>)>>)}},
       cs \in {<<>>, << <<sB, Str(sInjected)>> >>} :
        EngineStart(t, Context(<< <<sA, v>> >>, ds, cs))

SpecSafe == InitSafe /\ [][NextEngine]_vars

\* the text holds a {{...}} sequence
HasTemplateSyntax(t) ==
    \E i \in 1..Len(t), q \in 1..Len(t) : HasAt(t, i, sOpen) /\ q >= i + 2 /\ HasAt(t, q, sClose)

\* no string reachable in the value holds a {{...}} sequence
RECURSIVE FreeOfSyntax(_)
FreeOfSyntax(x) ==
    CASE x.t = "str" -> ~HasTemplateSyntax(x.v)
      [] x.t = "arr" -> \A i \in 1..Len(x.v) : FreeOfSyntax(x.v[i])
      [] x.t = "obj" -> \A i \in 1..Len(x.v) : FreeOfSyntax(x.v[i][2])
      [] OTHER       -> TRUE

\* C4: the sanitization run by createSafeTemplate(T).render removes every
\* {{...}} sequence from every string reachable in the variables and the
\* defaults, at top level, inside arrays and inside nested objects, and
\* leaves the template text and the conditionals unchanged.
C4_SanitizedEverywhere ==
    op = "safeRender" =>
        /\ FreeOfSyntax(Obj(sanitizedContext.variables))
        /\ FreeOfSyntax(Obj(sanitizedContext.defaults))
        /\ sanitizedContext.conditionals = context.conditionals

\* a rendering whose sanitization did remove the syntax the values held
C4_SanitizedTopLevel ==
    /\ op = "safeRender"
    /\ ~FreeOfSyntax(Obj(context.variables))
    /\ FreeOfSyntax(Obj(sanitizedContext.variables))
    /\ FreeOfSyntax(Obj(sanitizedContext.defaults))

-----------------------------------------------------------------------------
(* Rendering through createSafeTemplate when the values hold a token of an  *)
(* entry the template does not reference                                    *)

sC == <<"c">>
sSecret == <<"S">>

\* "{{a}}"   "{{a}}{{c}}"   "{{default a}}{{default c}}"   {{json a}}
InjectionTemplates ==
    { <<"\"">> \o sOpen \o sA \o sClose \o <<"\"">>,
      <<"\"">> \o sOpen \o sA \o sClose \o sOpen \o sC \o sClose \o <<"\"">>,
      <<"\"">> \o sOpen \o sDefault \o <<" ">> \o sA \o sClose
               \o sOpen \o sDefault \o <<" ">> \o sC \o sClose \o <<"\"">>,
      sOpen \o sJson \o <<" ">> \o sA \o sClose }

\* the caller-supplied values: "v"  "{{b}}"  "{{"  "b}}"  ["{{b}}"]  [["{{b}}"]]
SuppliedValue(n) ==
    CASE n = 1 -> Str(<<"v">>)
      [] n = 2 -> Str(sInjected)
      [] n = 3 -> Str(sOpen)
      [] n = 4 -> Str(sB \o sClose)
      [] n = 5 -> Arr(<<Str(sInjected)>>)
      [] n = 6 -> Arr(<<Arr(<<Str(sInjected)>>)>>)

\* the entry b, which the templates do not reference, holds "S" in the
\* variables (1), the defaults (2) or the conditionals (3); a and c are
\* supplied as variables (1, 3) or as defaults (2)
InjectionContext(m, x, y) ==
    CASE m = 1 -> Context(<< <<sA, x>>, <<sC, y>>, <<sB, Str(sSecret)>> >>, <<>>, <<>>)
      [] m = 2 -> Context(<<>>, << <<sA, x>>, <<sC, y>>, <<sB, Str(sSecret)>> >>, <<>>)
      [] m = 3 -> Context(<< <<sA, x>>, <<sC, y>> >>, <<>>, << <<sB, Str(sSecret)>> >>)

InitInjection ==
    \E t \in InjectionTemplates, m \in 1..3, n \in 1..6, k \in 1..4 :
        EngineStart(t, InjectionContext(m, SuppliedValue(n), SuppliedValue(k)))

SpecInjection == InitInjection /\ [][NextEngine]_vars

\* a string reachable in the value holds the character
RECURSIVE Mentions(_, _)
Mentions(x, c) ==
    CASE x.t = "str" -> c \in Range(x.v)
      [] x.t = "arr" -> \E i \in 1..Len(x.v) : Mentions(x.v[i], c)
      [] x.t = "obj" -> \E i \in 1..Len(x.v) : Mentions(x.v[i][2], c)
      [] OTHER       -> FALSE

\* C25: rendering through createSafeTemplate(T).render expands no token that
\* occurs only inside the supplied values, whole or split across several
\* values: the rendered output never holds the value of b, an entry the
\* template does not reference
C25_NoInjectedExpansion ==
    op = "safeRender" /\ result.kind = "value" => ~Mentions(result.value, "S")

\* a rendering of "{{a}}" whose value of a was the whole token {{b}}: the
\* token was removed and the output holds nothing of b
C25_WholeTokenRemoved ==
    /\ op = "safeRender"
    /\ Get(context.variables, sA) = Str(sInjected)
    /\ templateString = <<"\"">> \o sOpen \o sA \o sClose \o <<"\"">>
    /\ result = ValueResult(Str(<<>>))

-----------------------------------------------------------------------------
(* useUndoRedo under sequences of addToHistory, undo and redo, one or       *)
(* several of them called from the same render                              *)

MaxCallsPerRender == 2

\* the states added; the initial state is 0
NewStates == {1, 2}

AddToHistory ==
    /\ calls < MaxCallsPerRender
    /\ \E newState \in NewStates :
          undoHistory' = addedHistory(undoHistory, closure.currentIndex, newState)
    /\ currentIndex' = addedIndex(currentIndex)
    /\ calls' = calls + 1
    /\ undoOp' = "addToHistory"
    /\ UNCHANGED closure
    /\ UNCHANGED otherThanUndo

UndoCall ==
    /\ calls < MaxCallsPerRender
    /\ currentIndex' = IF closure.currentIndex > 0 THEN currentIndex - 1 ELSE currentIndex
    /\ calls' = calls + 1
    /\ undoOp' = "undo"
    /\ UNCHANGED <<undoHistory, closure>>
    /\ UNCHANGED otherThanUndo

RedoCall ==
    /\ calls < MaxCallsPerRender
    /\ currentIndex' = IF closure.currentIndex < closure.length - 1
                       THEN currentIndex + 1 ELSE currentIndex
    /\ calls' = calls + 1
    /\ undoOp' = "redo"
    /\ UNCHANGED <<undoHistory, closure>>
    /\ UNCHANGED otherThanUndo

\* the queued updates are applied and the component renders: new callbacks
\* close over the new state
RenderUndoRedo ==
    /\ calls > 0
    /\ closure' = Closure(currentIndex, Len(undoHistory))
    /\ calls' = 0
    /\ undoOp' = "render"
    /\ UNCHANGED <<undoHistory, currentIndex>>
    /\ UNCHANGED otherThanUndo

NextUndoRedo ==
    \/ AddToHistory
    \/ UndoCall
    \/ RedoCall
    \/ RenderUndoRedo

InitUndoRedo == EngineStart(<<>>, EmptyContext)

SpecUndoRedo == InitUndoRedo /\ [][NextUndoRedo]_vars

\* C26: after any sequence of addToHistory, undo and redo, several calls from
\* one render included, currentIndex is an index of history, history is no
\* longer than maxHistorySize, and currentState is never undefined
C26_IndexWithinHistory ==
    /\ 0 <= currentIndex
    /\ currentIndex <= Len(undoHistory) - 1
    /\ Len(undoHistory) <= MaxHistorySize
    /\ currentState(undoHistory, currentIndex) # Undef

\* a state was added to a full history, one call per render: the oldest
\* state was dropped and the index is that of the last entry
C26_AddedToFullHistory ==
    /\ undoOp = "addToHistory"
    /\ calls = 1
    /\ closure = Closure(MaxHistorySize - 1, MaxHistorySize)
    /\ Len(undoHistory) = MaxHistorySize
    /\ undoHistory[1] # 0
    /\ currentIndex = MaxHistorySize - 1
    /\ currentState(undoHistory, currentIndex) = Num(undoHistory[MaxHistorySize])

-----------------------------------------------------------------------------
(* The architecture reducer under sequences of the six actions on           *)
(* architectures and templates                                              *)

MaxEntries == 3

ArchitectureIds == {"x", "y"}

\* the templates dispatched: t in two versions, and u
PromptTemplates == {PromptTemplate("t", 1), PromptTemplate("t", 2), PromptTemplate("u", 1)}

\* the architectures dispatched: without templates and with one
Architectures ==
    {Architecture(id, ts) : id \in ArchitectureIds, ts \in {<<>>, <<PromptTemplate("t", 1)>>}}

RECURSIVE EntriesFrom(_, _)
EntriesFrom(archs, i) ==
    IF i > Len(archs) THEN 0 ELSE 1 + Len(archs[i].templates) + EntriesFrom(archs, i + 1)

\* the architectures and templates a state holds
Entries(state) == EntriesFrom(state.architectures, 1)

\* the state dispatch(action) leaves, from the state the variables hold
dispatched(action) ==
    architectureReducer(ArchitectureState(architectures, currentArchitecture), action)

NoTemplate == PromptTemplate("", 0)

AddArchitecture ==
    /\ \E arch \in Architectures :
          LET next == dispatched(ArchitectureAction("ADD_ARCHITECTURE", arch, "", NoTemplate, ""))
          IN  /\ Entries(next) <= MaxEntries
              /\ architectures' = next.architectures
              /\ currentArchitecture' = next.currentArchitecture
              /\ archOp' = [type |-> "ADD_ARCHITECTURE", architectureId |-> arch.id]
    /\ UNCHANGED otherThanArch

UpdateArchitecture ==
    /\ \E arch \in Architectures :
          LET next == dispatched(ArchitectureAction("UPDATE_ARCHITECTURE", arch, "", NoTemplate, ""))
          IN  /\ Entries(next) <= MaxEntries
              /\ architectures' = next.architectures
              /\ currentArchitecture' = next.currentArchitecture
              /\ archOp' = [type |-> "UPDATE_ARCHITECTURE", architectureId |-> arch.id]
    /\ UNCHANGED otherThanArch

DeleteArchitecture ==
    /\ \E id \in ArchitectureIds :
          LET next == dispatched(ArchitectureAction("DELETE_ARCHITECTURE", NoArchitecture, id, NoTemplate, ""))
          IN  /\ Entries(next) <= MaxEntries
              /\ architectures' = next.architectures
              /\ currentArchitecture' = next.currentArchitecture
              /\ archOp' = [type |-> "DELETE_ARCHITECTURE", architectureId |-> id]
    /\ UNCHANGED otherThanArch

AddTemplate ==
    /\ \E id \in ArchitectureIds, template \in PromptTemplates :
          LET next == dispatched(ArchitectureAction("ADD_TEMPLATE", NoArchitecture, id, template, ""))
          IN  /\ Entries(next) <= MaxEntries
              /\ architectures' = next.architectures
              /\ currentArchitecture' = next.currentArchitecture
              /\ archOp' = [type |-> "ADD_TEMPLATE", architectureId |-> id]
    /\ UNCHANGED otherThanArch

UpdateTemplate ==
    /\ \E id \in ArchitectureIds, template \in PromptTemplates :
          LET next == dispatched(ArchitectureAction("UPDATE_TEMPLATE", NoArchitecture, id, template, ""))
          IN  /\ Entries(next) <= MaxEntries
              /\ architectures' = next.architectures
              /\ currentArchitecture' = next.currentArchitecture
              /\ archOp' = [type |-> "UPDATE_TEMPLATE", architectureId |-> id]
    /\ UNCHANGED otherThanArch

DeleteTemplate ==
    /\ \E id \in ArchitectureIds, templateId \in {"t", "u"} :
          LET next == dispatched(ArchitectureAction("DELETE_TEMPLATE", NoArchitecture, id, NoTemplate, templateId))
          IN  /\ Entries(next) <= MaxEntries
              /\ architectures' = next.architectures
              /\ currentArchitecture' = next.currentArchitecture
              /\ archOp' = [type |-> "DELETE_TEMPLATE", architectureId |-> id]
    /\ UNCHANGED otherThanArch

NextArchitecture ==
    \/ AddArchitecture
    \/ UpdateArchitecture
    \/ DeleteArchitecture
    \/ AddTemplate
    \/ UpdateTemplate
    \/ DeleteTemplate

InitArchitecture == EngineStart(<<>>, EmptyContext)

SpecArchitecture == InitArchitecture /\ [][NextArchitecture]_vars

\* C28: after any sequence of the six actions from the initial state,
\* currentArchitecture is null or equal, id and templates, to an entry of
\* architectures; deleting the current architecture sets it to null
C28_CurrentIsAnEntry ==
    /\ [](\/ currentArchitecture.isNull
          \/ \E i \in 1..Len(architectures) : architectures[i] = currentArchitecture)
    /\ [][(/\ archOp'.type = "DELETE_ARCHITECTURE"
           /\ ~currentArchitecture.isNull
           /\ currentArchitecture.id = archOp'.architectureId)
            => currentArchitecture'.isNull]_vars

\* the current architecture was deleted while another one stays listed
C28_DeletedCurrent ==
    /\ archOp.type = "DELETE_ARCHITECTURE"
    /\ currentArchitecture.isNull
    /\ Len(architectures) >= 1
    /\ \A i \in 1..Len(architectures) : architectures[i].id # archOp.architectureId

-----------------------------------------------------------------------------
(* storageManager under save, load, remove and list on two keys, next to    *)
(* the 'prompt-history' item of the same localStorage                       *)

MaxSaves == 3

StorageKeys == {<<"a">>, <<"b">>}

\* the data saved: "v"   {a: 1}   null   undefined
SavedData(n) ==
    CASE n = 1 -> Str(<<"v">>)
      [] n = 2 -> Obj(<< <<sA, Num(1)>> >>)
      [] n = 3 -> Null
      [] n = 4 -> Undef

Save ==
    /\ stoClock <= MaxSaves
    /\ \E key \in StorageKeys, n \in 1..4 :
          /\ localStore' = saveItem(localStore, key, SavedData(n), stoClock)
          /\ saved' = withEntry(saved, key, SavedData(n))
          /\ stoOp' = StoOp("save", key, SavedData(n))
    /\ stoClock' = stoClock + 1
    /\ UNCHANGED <<stoResult, saveTimeout, timers, timerIds>>
    /\ UNCHANGED otherThanSto

Load ==
    /\ \E key \in StorageKeys :
          /\ stoResult' = load(localStore, key)
          /\ stoOp' = StoOp("load", key, Undef)
    /\ UNCHANGED <<localStore, saved, stoClock, saveTimeout, timers, timerIds>>
    /\ UNCHANGED otherThanSto

Remove ==
    /\ \E key \in StorageKeys :
          /\ localStore' = removeItem(localStore, key)
          /\ saved' = withoutEntry(saved, key)
          /\ stoOp' = StoOp("remove", key, Undef)
    /\ UNCHANGED <<stoResult, stoClock, saveTimeout, timers, timerIds>>
    /\ UNCHANGED otherThanSto

List ==
    /\ stoResult' = listKeys(localStore)
    /\ stoOp' = StoOp("list", <<>>, Undef)
    /\ UNCHANGED <<localStore, saved, stoClock, saveTimeout, timers, timerIds>>
    /\ UNCHANGED otherThanSto

\* DynamicJsonGenerator writes its own item into the same localStorage
SetPromptHistory ==
    /\ ~HasKey(localStore, sPromptHistory)
    /\ localStore' = withEntry(localStore, sPromptHistory, <<"[", "]">>)
    /\ stoOp' = StoOp("setItem", sPromptHistory, Undef)
    /\ UNCHANGED <<saved, stoResult, stoClock, saveTimeout, timers, timerIds>>
    /\ UNCHANGED otherThanSto

NextStorage ==
    \/ Save
    \/ Load
    \/ Remove
    \/ List
    \/ SetPromptHistory

InitStorage == EngineStart(<<>>, EmptyContext)

SpecStorage == InitStorage /\ [][NextStorage]_vars

\* the keys a list call resolved to
Listed(x) == {x.v[i].v : i \in 1..Len(x.v)}

-----------------------------------------------------------------------------
(* autoSaveManager under scheduleAutoSave and cancelAutoSave calls and the  *)
(* timers firing                                                            *)

MaxSchedules == 3

Timer(id, key, data) == [id |-> id, key |-> key, data |-> data]

\* scheduleAutoSave(key, data): setTimeout returns a new, non-zero id
ScheduleAutoSave ==
    /\ timerIds < MaxSchedules
    /\ \E key \in StorageKeys, n \in 1..2 :
          /\ timers' = Append(IF saveTimeout # 0 THEN clearTimeout(timers, saveTimeout)
                                                 ELSE timers,
                              Timer(timerIds + 1, key, SavedData(n)))
          /\ stoOp' = StoOp("scheduleAutoSave", key, SavedData(n))
    /\ saveTimeout' = timerIds + 1
    /\ timerIds' = timerIds + 1
    /\ UNCHANGED <<localStore, saved, stoClock, stoResult>>
    /\ UNCHANGED otherThanSto

CancelAutoSave ==
    /\ IF saveTimeout # 0
       THEN /\ timers' = clearTimeout(timers, saveTimeout)
            /\ saveTimeout' = 0
       ELSE UNCHANGED <<timers, saveTimeout>>
    /\ stoOp' = StoOp("cancelAutoSave", <<>>, Undef)
    /\ UNCHANGED <<localStore, saved, stoClock, stoResult, timerIds>>
    /\ UNCHANGED otherThanSto

\* a timer fires: its callback calls storage.save(key, data), which runs to
\* its end before anything else; saveTimeout keeps the id of the fired timer
TimerFires ==
    /\ \E i \in 1..Len(timers) :
          /\ timers' = SelectSeq(timers, LAMBDA t : t.id # timers[i].id)
          /\ localStore' = saveItem(localStore, timers[i].key, timers[i].data, stoClock)
          /\ saved' = withEntry(saved, timers[i].key, timers[i].data)
          /\ stoOp' = StoOp("autoSave", timers[i].key, timers[i].data)
    /\ stoClock' = stoClock + 1
    /\ UNCHANGED <<stoResult, saveTimeout, timerIds>>
    /\ UNCHANGED otherThanSto

NextAutoSave ==
    \/ ScheduleAutoSave
    \/ CancelAutoSave
    \/ TimerFires
    \/ Load

InitAutoSave == EngineStart(<<>>, EmptyContext)

SpecAutoSave == InitAutoSave /\ [][NextAutoSave]_vars

\* C27: the AutoSaveManager holds at most one pending save: after
\* scheduleAutoSave(key, data) the only pending save is that of (key, data),
\* whatever was pending before and under whatever key; after cancelAutoSave
\* nothing is pending; and what is written is the one pending save, so of a
\* burst of calls only the last is written
C27_OnePendingSave ==
    /\ [](Len(timers) <= 1)
    /\ [](stoOp.name = "scheduleAutoSave"
            => timers = <<Timer(saveTimeout, stoOp.key, stoOp.data)>>)
    /\ [](stoOp.name = "cancelAutoSave" => timers = <<>> /\ saveTimeout = 0)
    /\ [][localStore' # localStore
            => /\ Len(timers) = 1
               /\ timers[1].id = saveTimeout
               /\ localStore' = saveItem(localStore, timers[1].key, timers[1].data, stoClock)
               /\ timers' = <<>>]_vars

\* three saves were scheduled and one was written, the last one: the stored
\* item of its key holds its data and the other key holds nothing
C27_WroteLastOfBurst ==
    /\ stoOp.name = "autoSave"
    /\ timerIds = 3
    /\ saveTimeout = 3
    /\ stoClock = 2
    /\ timers = <<>>
    /\ Len(localStore) = 1
    /\ load(localStore, stoOp.key) = Resolved(stoOp.data)

-----------------------------------------------------------------------------
(* Extracting the variables of templates put together from tokens           *)

sF == <<"f">>

\* {{a}}  {{a.b}}  {{json b}}  {{join a.b}}  {{json}}  {{#if f}}  {{#if join}}
\* {{/if}}  x
ExtractPieces ==
    { sOpen \o sA \o sClose,
      sOpen \o sA \o <<".">> \o sB \o sClose,
      sOpen \o sJson \o <<" ">> \o sB \o sClose,
      sOpen \o sJoin \o <<" ">> \o sA \o <<".">> \o sB \o sClose,
      sOpen \o sJson \o sClose,
      sIfOpen \o <<" ">> \o sF \o sClose,
      sIfOpen \o <<" ">> \o sJoin \o sClose,
      sIfClose,
      <<"x">> }

InitExtract ==
    \E ps \in SeqsUpTo(ExtractPieces, MaxPieces), vs \in {<<>>, << <<sA, Str(<<"v">>)>> >>} :
        EngineStart(Concat(ps), Context(vs, <<>>, <<>>))

SpecExtract == InitExtract /\ [][NextEngine]_vars

\* the segment of a path before its first dot
Root(path) == Head(split(path, "."))

\* the flag of the {{#if flag}} token at position i
ifHeaderFlag(t, i) == SubSeq(t, Span(t, i + 5, SpaceChars), ifHeaderEnd(t, i) - 3)

\* the root names of the paths that the tokens compile acts on refer to
ReferencedRoots(t) ==
    {Root(matchVariable(t, i).path) : i \in {j \in 1..Len(t) : matchVariable(t, j).ok}}
    \cup {Root(matchHelper(t, i).path) : i \in {j \in 1..Len(t) : matchHelper(t, j).ok}}
    \cup {ifHeaderFlag(t, i) : i \in {j \in 1..Len(t) : ifHeaderEnd(t, j) > 0}}

-----------------------------------------------------------------------------
(* Registering, exporting and importing schemas                             *)

MaxRegistrations == 3

sTest == <<"t", "e", "s", "t">>
sV1   == <<"v", "1">>
sV2   == <<"v", "2">>

SchemaNames == {sTest, sChat}
Versions    == {sV1, sV2}

\* {type: "object"}   {type: "object", a: {type: "string"}}
Schemas ==
    { Obj(<< <<sType, Str(<<"o">>)>> >>),
      Obj(<< <<sType, Str(<<"o">>)>>, <<sA, Obj(<< <<sType, Str(<<"s">>)>> >>)>> >>) }

\* 'template'   '{"a": "{{a}}"}'
Templates ==
    { Str(<<"t">>),
      Str(<<"{", "\"", "a", "\"", ":", " ", "\"">> \o sOpen \o sA \o sClose \o <<"\"", "}">>) }

RegisterSchema ==
    /\ registrations < MaxRegistrations
    /\ \E name \in SchemaNames, version \in Versions, schema \in Schemas, template \in Templates :
           registry' = registerSchema(registry, name, version, schema, template)
    /\ registrations' = registrations + 1
    /\ regOp' = "registerSchema"
    /\ UNCHANGED <<exported, newRegistry, otherThanReg>>

ExportRegistry ==
    /\ regOp # "exportRegistry"
    /\ exported' = exportRegistry(registry)
    /\ regOp' = "exportRegistry"
    /\ UNCHANGED <<registry, registrations, newRegistry, otherThanReg>>

\* new SchemaRegistryManager().importRegistry(exported), on what was just exported
ImportRegistry ==
    /\ regOp = "exportRegistry"
    /\ newRegistry' = importRegistry(<<>>, exported)
    /\ regOp' = "importRegistry"
    /\ UNCHANGED <<registry, registrations, exported, otherThanReg>>

NextRegistry ==
    \/ RegisterSchema
    \/ ExportRegistry
    \/ ImportRegistry

InitRegistry == EngineStart(<<>>, EmptyContext)

SpecRegistry == InitRegistry /\ [][NextRegistry]_vars

\* the same (name, version) keys, and for each key an equal schema and template
SameEntries(a, b) ==
    /\ Keys(a) = Keys(b)
    /\ \A k \in Keys(a) :
           /\ getSchema(a, k[1], k[2]) = getSchema(b, k[1], k[2])
           /\ getTemplate(a, k[1], k[2]) = getTemplate(b, k[1], k[2])

\* C7: for every registry R built by registerSchema calls, importing
\* exportRegistry(R) into a fresh registry yields a registry with R's
\* (name, version) keys and, for each key, a schema and a template equal to
\* R's.
C7_ImportOfExportIsSame ==
    /\ SameEntries(importRegistry(<<>>, exportRegistry(registry)), registry)
    /\ regOp = "importRegistry" => SameEntries(newRegistry, registry)

\* an import of the export of a registry of two entries, one of them
\* registered twice
C7_ImportedOverwrittenEntry ==
    /\ regOp = "importRegistry"
    /\ Len(registry) = 2
    /\ registrations = 3
    /\ Len(newRegistry) = 2

\* C13: registering a schema under a new version is additive: every entry
\* registered before still returns the same schema and template, and
\* getVersions lists the old versions of every name and the new version.
C13_NewVersionIsAdditive ==
    [][Keys(registry') # Keys(registry) =>
          /\ \A k \in Keys(registry) :
                 /\ getSchema(registry', k[1], k[2]) = getSchema(registry, k[1], k[2])
                 /\ getTemplate(registry', k[1], k[2]) = getTemplate(registry, k[1], k[2])
                 /\ k[2] \in Range(getVersions(registry', k[1]))
          /\ \E k \in Keys(registry') \ Keys(registry) :
                 /\ k[2] \in Range(getVersions(registry', k[1]))
                 /\ Range(getVersions(registry', k[1])) =
                        Range(getVersions(registry, k[1])) \cup {k[2]}
      ]_vars

\* a second version has been registered under a name that had one
C13_RegisteredSecondVersion ==
    /\ regOp = "registerSchema"
    /\ registrations = 2
    /\ getVersions(registry, sTest) = <<sV1, sV2>>
    /\ getSchema(registry, sTest, sV1) # getSchema(registry, sTest, sV2)

-----------------------------------------------------------------------------
(* Generating prompts                                                       *)

RequestDomains == {Str(sChat), Str(sUnknown), Str(<<>>), Undef}

RequestTasks == {Str(<<"x">>), Str(<<>>), Undef}

\* role: absent, "B", 7, null
RequestRoles == {<<>>} \cup {<< <<sRole, v>> >> : v \in {Str(<<"B">>), Num(7), Null}}

\* goals: absent, ["G"], "g", [1]
RequestGoals ==
    {<<>>} \cup {<< <<sGoals, v>> >> : v \in {Arr(<<Str(<<"G">>)>>), Str(<<"g">>), Arr(<<Num(1)>>)}}

Requests ==
    { [domain |-> d, task_description |-> t, variables |-> r \o g, auto_repair |-> a] :
        d \in RequestDomains, t \in RequestTasks, r \in RequestRoles, g \in RequestGoals,
        a \in BOOLEAN }

GeneratePrompt ==
    /\ pc = "idle"
    /\ \E req \in Requests :
           /\ request' = req
           /\ IF invalidRequest(req)
              THEN /\ response' = InvalidRequestResponse
                   /\ pc' = "done"
                   /\ UNCHANGED <<prompt, valid, repairAttempts>>
              ELSE IF req.domain.v \notin registeredDomains
              THEN /\ response' = unknownDomain(req)
                   /\ pc' = "done"
                   /\ UNCHANGED <<prompt, valid, repairAttempts>>
              ELSE /\ prompt' = renderPrompt(req)
                   /\ valid' = validatePrompt(prompt')
                   /\ repairAttempts' = 0
                   /\ pc' = "repairing"
                   /\ UNCHANGED response
    /\ UNCHANGED otherThanGen

\* one pass of the repair loop
RepairPass ==
    /\ pc = "repairing"
    /\ repairPending(request, prompt, repairAttempts)
    /\ prompt' = repairPrompt(prompt)
    /\ repairAttempts' = repairAttempts + 1
    /\ valid' = validatePrompt(prompt')
    /\ UNCHANGED <<request, pc, response, otherThanGen>>

\* the loop is left and the result returned
ReturnPrompt ==
    /\ pc = "repairing"
    /\ ~repairPending(request, prompt, repairAttempts)
    /\ response' = generated(prompt, repairAttempts)
    /\ pc' = "done"
    /\ UNCHANGED <<request, prompt, valid, repairAttempts, otherThanGen>>

NextGenerate ==
    \/ GeneratePrompt
    \/ RepairPass
    \/ ReturnPrompt

InitGenerate == EngineStart(<<>>, EmptyContext)

\* the call runs synchronously to its end: a step that can be taken is taken
SpecGenerate == InitGenerate /\ [][NextGenerate]_vars /\ WF_vars(NextGenerate)

\* C8: the auto-repair loop of generatePrompt terminates after at most
\* MaxRepairAttempts passes, and the repair_attempts reported never exceeds
\* that bound.
C8_RepairLoopBounded ==
    /\ [](repairAttempts <= MaxRepairAttempts /\ response.repair_attempts <= MaxRepairAttempts)
    /\ [](pc = "repairing" => <>(pc = "done"))

\* a call that used every pass and returned a document still invalid
C8_ReturnedAfterLastPass ==
    /\ pc = "done"
    /\ response.success
    /\ ~response.valid
    /\ response.repair_attempts = MaxRepairAttempts

\* C9: when the rendered document already validates, generatePrompt with
\* auto_repair returns valid = true and repair_attempts = 0, the document
\* unchanged.
C9_ValidDocumentNotRepaired ==
    (pc = "done" /\ response.success /\ request.auto_repair
        /\ validatePrompt(renderPrompt(request)))
        => /\ response.valid
           /\ response.repair_attempts = 0
           /\ response.prompt = renderPrompt(request)

\* a call with auto_repair whose variables gave a valid role and valid goals
C9_ReturnedValidDocument ==
    /\ pc = "done" /\ response.success /\ request.auto_repair
    /\ Len(request.variables) = 2
    /\ validatePrompt(renderPrompt(request))

-----------------------------------------------------------------------------
(* Validating documents against schemas                                     *)

MaxValidations == 2

\* {type: 'string'}
StringSchema == Obj(<< <<sType, Str(sString)>> >>)

\* {type: 'object', properties: {role: {type: 'string'}}, required: ['role']}
RoleSchema ==
    Obj(<< <<sType, Str(sObject)>>,
           <<sProperties, Obj(<< <<sRole, StringSchema>> >>)>>,
           <<sRequired, Arr(<<Str(sRole)>>)>> >>)

\* {type: 'object', properties: {role: {type: 'string'}, goals: {type: 'array',
\*  items: {type: 'string'}}}, required: ['role', 'goals']}
PromptSchema ==
    Obj(<< <<sType, Str(sObject)>>,
           <<sProperties,
             Obj(<< <<sRole, StringSchema>>,
                    <<sGoals, Obj(<< <<sType, Str(sArray)>>, <<sItems, StringSchema>> >>)>> >>)>>,
           <<sRequired, Arr(<<Str(sRole), Str(sGoals)>>)>> >>)

ValidatedSchemas == <<StringSchema, RoleSchema, PromptSchema>>

\* {role: 'A', goals: ['H']}  {role: 7}  {role: 'A', goals: 'g'}
\* {role: 'A', goals: ['H', 7]}  'A'  {}
ValidatedDocuments ==
    << Obj(<< <<sRole, Str(<<"A">>)>>, <<sGoals, Arr(<<Str(<<"H">>)>>)>> >>),
       Obj(<< <<sRole, Num(7)>> >>),
       Obj(<< <<sRole, Str(<<"A">>)>>, <<sGoals, Str(<<"g">>)>> >>),
       Obj(<< <<sRole, Str(<<"A">>)>>, <<sGoals, Arr(<<Str(<<"H">>), Num(7)>>)>> >>),
       Str(<<"A">>),
       Obj(<<>>) >>

\* one call: the schema joins the instance's cache, the arguments are read only
ValidateJsonWithSchema ==
    /\ Len(validated) < MaxValidations
    /\ \E d \in 1..Len(ValidatedDocuments), s \in 1..Len(ValidatedSchemas) :
           /\ validated' = Append(validated,
                  [data |-> ValidatedDocuments[d], schema |-> ValidatedSchemas[s],
                   dataAfter |-> ValidatedDocuments[d], schemaAfter |-> ValidatedSchemas[s],
                   cached |-> Len(ajvCache),
                   result |-> validateJsonWithSchema(ajvCache, ValidatedDocuments[d],
                                                     ValidatedSchemas[s].v)])
           /\ ajvCache' = IF \E i \in 1..Len(ajvCache) : ajvCache[i] = ValidatedSchemas[s].v
                          THEN ajvCache
                          ELSE Append(ajvCache, ValidatedSchemas[s].v)
    /\ UNCHANGED otherThanVal

NextValidate == ValidateJsonWithSchema

InitValidate == EngineStart(<<>>, EmptyContext)

SpecValidate == InitValidate /\ [][NextValidate]_vars

-----------------------------------------------------------------------------
(* Checking caller-supplied schemas                                         *)

MaxSchemaChecks == 2

sDraft07 == <<"d", "r", "a", "f", "t", "-", "0", "7">>

\* where a schema holds its $ref: nowhere, at the top, in a property, in an
\* item of an array
RefPlaces == {"none", "top", "property", "item"}

\* the schema with or without $schema and type, and its $ref at the place
UserSchema(hasSchema, hasType, ref) ==
    Obj((IF hasSchema THEN << <<sDollarSchema, Str(sDraft07)>> >> ELSE <<>>)
        \o (IF hasType THEN << <<sType, Str(sObject)>> >> ELSE <<>>)
        \o (CASE ref = "none"     -> <<>>
              [] ref = "top"      -> << <<sDollarRef, Str(<<"x">>)>> >>
              [] ref = "property" ->
                    << <<sProperties,
                         Obj(<< <<sA, Obj(<< <<sDollarRef, Str(<<"x">>)>> >>)>> >>)>> >>
              [] ref = "item"     ->
                    << <<sItems, Arr(<<Obj(<< <<sDollarRef, Str(<<"x">>)>> >>)>>)>> >>))

\* one call on a schema object, on null or on a string
ValidateUserSchema ==
    /\ Len(schemaChecks) < MaxSchemaChecks
    /\ \/ \E hasSchema \in BOOLEAN, hasType \in BOOLEAN, ref \in RefPlaces :
              schemaChecks' = Append(schemaChecks,
                  [schema |-> UserSchema(hasSchema, hasType, ref),
                   result |-> validateUserSchema(UserSchema(hasSchema, hasType, ref))])
       \/ \E other \in {"null", "str"} :
              schemaChecks' = Append(schemaChecks,
                  [schema |-> IF other = "null" THEN Null ELSE Str(<<"x">>),
                   result |-> validateUserSchema(IF other = "null" THEN Null ELSE Str(<<"x">>))])
    /\ UNCHANGED otherThanUsr

NextUserSchema == ValidateUserSchema

InitUserSchema == EngineStart(<<>>, EmptyContext)

SpecUserSchema == InitUserSchema /\ [][NextUserSchema]_vars

\* the error list mentions 'complex references'
MentionsComplexReferences(errors) ==
    \E i \in 1..Len(errors) : errors[i] = "Schema contains complex references"

-----------------------------------------------------------------------------
(* The prompt history over generations, deletions, clear-all and reloads    *)

MaxGenerations == 11

\* the text of the prompt box when handleConvert runs
PromptTexts == {<<>>, <<" ">>, <<"h", "i">>}

\* the json of a successful response
GeneratedJson == Obj(<< <<(<<"a">>), Num(1)>> >>)

\* a handleConvert that starts its call without setting isLoading
startedLoadingUnset(p) == FALSE

\* handleConvert's setIsLoading(true) before the call
startedLoading(p) == trim(p) # <<>>

\* a failure that clears the result
failedResultCleared(r) == Null

\* the jsonResult a failed or throwing call leaves: setJsonResult is not called
failedResult(r) == r

\* handleConvert up to its await: the button is disabled while a call is
\* loading; a blank prompt sets the error and returns; otherwise the call's
\* saveToHistory closes over this render's history
HandleConvert ==
    /\ ~isLoading
    /\ now < MaxGenerations
    /\ \E p \in PromptTexts :
          IF trim(p) = <<>>
          THEN /\ error' = "Please enter a prompt"
               /\ histOp' = "promptRequired"
               /\ UNCHANGED <<converting, isLoading>>
          ELSE /\ isLoading' = startedLoading(p)
               /\ error' = ""
               /\ converting' = Converting(history)
               /\ histOp' = "handleConvert"
    /\ UNCHANGED <<history, storage, now, jsonResult>>
    /\ UNCHANGED otherThanHist

\* handleConvert after its await, response.success: setJsonResult,
\* saveToHistory, and the finally clause
ConvertSucceeded ==
    /\ converting.pending
    /\ jsonResult' = GeneratedJson
    /\ LET updatedHistory == saveToHistory(converting.history, [id |-> now + 1])
       IN  /\ history' = updatedHistory
           /\ storage' = Item(updatedHistory)
    /\ now' = now + 1
    /\ converting' = NotConverting
    /\ isLoading' = FALSE
    /\ histOp' = "saveToHistory"
    /\ UNCHANGED error
    /\ UNCHANGED otherThanHist

\* handleConvert after its await, no success: setError(response.error ||
\* 'Failed to generate JSON'), and the finally clause
ConvertFailed ==
    /\ converting.pending
    /\ \E e \in {"", "Backend API is required for real LLM providers. Please start the backend server or use demo mode."} :
          error' = IF e = "" THEN "Failed to generate JSON" ELSE e
    /\ jsonResult' = failedResult(jsonResult)
    /\ converting' = NotConverting
    /\ isLoading' = FALSE
    /\ histOp' = "setError"
    /\ UNCHANGED <<history, storage, now>>
    /\ UNCHANGED otherThanHist

\* the awaited call throws: the catch clause's setError, and the finally clause
ConvertThrew ==
    /\ converting.pending
    /\ error' = "Unknown error occurred"
    /\ jsonResult' = failedResult(jsonResult)
    /\ converting' = NotConverting
    /\ isLoading' = FALSE
    /\ histOp' = "catch"
    /\ UNCHANGED <<history, storage, now>>
    /\ UNCHANGED otherThanHist

\* the Load button of a displayed entry; every entry holds GeneratedJson
LoadFromHistory ==
    /\ history # <<>>
    /\ jsonResult' = GeneratedJson
    /\ error' = ""
    /\ histOp' = "loadFromHistory"
    /\ UNCHANGED <<history, storage, now, converting, isLoading>>
    /\ UNCHANGED otherThanHist

ClearHistory ==
    /\ history' = <<>>
    /\ storage' = NoItem
    /\ histOp' = "clearHistory"
    /\ UNCHANGED <<now, converting, isLoading, error, jsonResult>>
    /\ UNCHANGED otherThanHist

\* the delete button of a displayed entry: the first or the last one shown
DeleteHistoryItem ==
    /\ history # <<>>
    /\ \E i \in {1, Len(displayHistory(history))} :
          LET updatedHistory == deleteHistoryItem(history, displayHistory(history)[i].id)
          IN  /\ history' = updatedHistory
              /\ storage' = Item(updatedHistory)
    /\ histOp' = "deleteHistoryItem"
    /\ UNCHANGED <<now, converting, isLoading, error, jsonResult>>
    /\ UNCHANGED otherThanHist

\* the page is loaded again: the pending call is gone with the old page, the
\* states start anew and the mount effect sets the history it reads from
\* the stored item
Mount ==
    /\ history' = IF storage.set THEN storage.list ELSE <<>>
    /\ converting' = NotConverting
    /\ isLoading' = FALSE
    /\ error' = ""
    /\ jsonResult' = Null
    /\ histOp' = "mount"
    /\ UNCHANGED <<storage, now>>
    /\ UNCHANGED otherThanHist

NextHistory ==
    \/ HandleConvert
    \/ ConvertSucceeded
    \/ ConvertFailed
    \/ ConvertThrew
    \/ LoadFromHistory
    \/ ClearHistory
    \/ DeleteHistoryItem
    \/ Mount

InitHistory == EngineStart(<<>>, EmptyContext)

SpecHistory == InitHistory /\ [][NextHistory]_vars

NewestFirst(h) == \A i, j \in 1..Len(h) : i < j => h[i].id > h[j].id

HistoryCapped(h) == Len(h) <= 10 /\ NewestFirst(h)

\* C14: after any sequence of generations, deletions and clear-all the
\* history, in memory and in the stored item, holds at most 10 entries,
\* newest first; adding an entry to a list of 10 drops the oldest one.
C14_HistoryCappedNewestFirst ==
    /\ [](HistoryCapped(history) /\ HistoryCapped(storage.list))
    /\ [][histOp' = "saveToHistory" /\ Len(history) = 10 =>
             /\ history' = <<[id |-> now']>> \o SubSeq(history, 1, 9)
             /\ storage' = Item(history')
             /\ \A i \in 1..Len(history') : history'[i] # history[10]
         ]_vars

\* the eleventh entry has been saved to a list that held ten
C14_SavedEleventh ==
    /\ histOp = "saveToHistory"
    /\ Len(history) = 10
    /\ history[1].id = 11
    /\ history[10].id = 2
    /\ storage = Item(history)

Settlements == {"saveToHistory", "setError", "catch"}

\* C23: isLoading is true exactly while a provider call of handleConvert is
\* in flight: it is set before the call and cleared when the call settles
\* by a success, a failure response or a throw; nothing else clears it (no
\* timeout, no cancellation), so a call that never settles leaves it true
\* for the life of the component
C23_LoadingWhileCallInFlight ==
    /\ [](isLoading <=> converting.pending)
    /\ [][(~isLoading /\ isLoading') => histOp' = "handleConvert"]_vars
    /\ [][(isLoading /\ ~isLoading')
            => \/ converting.pending /\ histOp' \in Settlements
               \/ histOp' = "mount"]_vars

\* a call was started and threw: isLoading is false again
C23_LoadingClearedAfterThrow ==
    /\ histOp = "catch"
    /\ ~isLoading
    /\ ~converting.pending
    /\ error = "Unknown error occurred"

\* the ids of the entries of a list
Ids(list) == {list[i].id : i \in 1..Len(list)}

\* C24: an entry removed by deleteHistoryItem or clearHistory never reappears:
\* every entry a step puts into the history, or into the stored list, was
\* there before the step or is the entry that step has just created
C24_RemovedNeverReappears ==
    [][/\ Ids(history') \subseteq Ids(history) \cup {now'}
       /\ Ids(storage'.list) \subseteq Ids(storage.list) \cup {now'}]_vars

\* the first entry was removed and a conversion started afterwards has saved
\* the second: the history holds the second entry only
C24_RemovedStaysOutOfLaterSave ==
    /\ histOp = "saveToHistory"
    /\ now = 2
    /\ Ids(history) = {2}
    /\ Ids(storage.list) = {2}

\* C30: handleConvert changes the result and the history only on success: with
\* a blank prompt it starts no call and changes nothing but the error
\* message; when the call returns a failure or throws, jsonResult, the
\* history and the stored list stay as they were and the error is set
C30_OnlySuccessChangesResult ==
    /\ [][histOp' = "promptRequired"
            => /\ error' = "Please enter a prompt"
               /\ UNCHANGED <<jsonResult, history, storage, now, converting, isLoading>>]_vars
    /\ [][histOp' \in {"setError", "catch"}
            => /\ error' # ""
               /\ UNCHANGED <<jsonResult, history, storage, now>>]_vars

\* a call failed after an earlier success: the earlier result and the
\* history are still there, next to the error
C30_FailureKeptEarlierResult ==
    /\ histOp = "setError"
    /\ error = "Failed to generate JSON"
    /\ jsonResult = GeneratedJson
    /\ Len(history) = 1
    /\ storage.list = history

-----------------------------------------------------------------------------
(* Converting prompts through the backend and the LLM providers             *)

sPayloadObject == <<"{", "\"", "a", "\"", ":", "1", "}">>
sPayloadArray  == <<"[", "\"", "b", "\"", "]">>
sPayloadFence  == <<"\"">> \o sFence \o <<"\"">>

Payloads == {sPayloadObject, sPayloadArray, sPayloadFence}

FencedJson(payload)  == sFenceJson \o <<"\n">> \o payload \o <<"\n">> \o sFence
FencedPlain(payload) == sFence \o <<"\n">> \o payload \o <<"\n">> \o sFence

\* completions that are no JSON, fenced or not, and a blank one
NotJsonContents == {<<"n", "o">>, <<"{">>, <<" ">>}

Contents ==
    Payloads \cup {FencedJson(p) : p \in Payloads} \cup {FencedPlain(p) : p \in Payloads}
             \cup NotJsonContents

StatusTexts == {"Unauthorized", "Too Many Requests", "Internal Server Error"}

Reply(kind, st, et, has, content) ==
    [kind |-> kind, statusText |-> st, errorText |-> et, hasContent |-> has, content |-> content]

Replies ==
    {Reply(k, "", "", FALSE, <<>>) : k \in {"rejected", "notJson", "noChoices", "completion"}}
    \cup {Reply("status", st, "quota", FALSE, <<>>) : st \in StatusTexts}
    \cup {Reply("completion", "OK", "", TRUE, c) : c \in Contents}

ConvertPrompts == {<<>>, <<"h", "i">>}
Providers      == RealProviders \cup {"mock"}
ApiKeys        == {"", "key"}

\* convertPromptToJSON up to callBackendAPI's fetch
ConvertPromptToJSON ==
    /\ convPc = "idle"
    /\ \E p \in ConvertPrompts, name \in Providers, key \in ApiKeys :
          convRequest' = [prompt |-> p, provider |-> name, apiKey |-> key]
    /\ convPc' = "fetching"
    /\ UNCHANGED <<upstream, backendResponse, convResponse>>
    /\ UNCHANGED otherThanConv

\* the fetch fails, the backend is not reached: the call returns
BackendUnreachable ==
    /\ convPc = "fetching"
    /\ convResponse' = convertPromptToJSON(convRequest, NoBackendResponse)
    /\ convPc' = "returned"
    /\ UNCHANGED <<convRequest, upstream, backendResponse>>
    /\ UNCHANGED otherThanConv

\* POST /convert, the provider's reply included
PostConvert ==
    /\ convPc = "fetching"
    /\ \E reply \in Replies :
          /\ upstream' = IF callsProvider(convRequest) THEN reply ELSE NoReply
          /\ backendResponse' = postConvert(convRequest, reply)
    /\ convPc' = "responded"
    /\ UNCHANGED <<convRequest, convResponse>>
    /\ UNCHANGED otherThanConv

\* convertPromptToJSON from the backend's response on
ConvertReturns ==
    /\ convPc = "responded"
    /\ convResponse' = convertPromptToJSON(convRequest, backendResponse)
    /\ convPc' = "returned"
    /\ UNCHANGED <<convRequest, upstream, backendResponse>>
    /\ UNCHANGED otherThanConv

NextConvert ==
    \/ ConvertPromptToJSON
    \/ BackendUnreachable
    \/ PostConvert
    \/ ConvertReturns

InitConvert == EngineStart(<<>>, EmptyContext)

SpecConvert == InitConvert /\ [][NextConvert]_vars

\* the completion the provider answered is the payload p inside code fences
Fenced(p) ==
    /\ upstream.kind = "completion"
    /\ upstream.hasContent
    /\ upstream.content \in {FencedJson(p), FencedPlain(p)}

\* C15: for every provider, a completion whose JSON payload is wrapped in
\* code fences is parsed to the same JSON value as the unwrapped payload.
C15_FencedParsesAsUnwrapped ==
    \A p \in Payloads :
        Fenced(p) => backendResponse = BackendResponse(200, TRUE, JSONparse(p).value, <<>>)

\* OpenRouter's fenced completion has been parsed to the payload's value
C15_OpenRouterStrippedFence ==
    /\ convRequest.provider = "openrouter"
    /\ upstream.content = FencedJson(sPayloadObject)
    /\ backendResponse = BackendResponse(200, TRUE, Obj(<< <<(<<"a">>), Num(1)>> >>), <<>>)

\* C16: when the provider's call fails with an HTTP error, the failure that
\* convertPromptToJSON returns holds the provider's status text.
C16_FailureHoldsUpstreamStatusText ==
    convPc = "returned" /\ upstream.kind = "status" =>
        /\ ~convResponse.success
        /\ upstream.statusText \in Range(convResponse.error)

\* the call has returned a failure after the backend put the provider's
\* status text into its own response
C16_BackendSurfacedStatusText ==
    /\ convPc = "returned"
    /\ upstream.kind = "status"
    /\ upstream.statusText = "Unauthorized"
    /\ backendResponse = BackendResponse(500, FALSE, Undef,
                              <<"OpenRouter API error: ", "Unauthorized", " - ", "quota">>)
    /\ ~convResponse.success
    /\ convResponse.error # <<>>

\* the failures of a conversion: the backend is not reached, the prompt or
\* the key is missing, the provider's call fails, its completion is no JSON
BackendFailure ==
    \/ convRequest.prompt = <<>>
    \/ convRequest.provider \in RealProviders /\ convRequest.apiKey = ""
    \/ upstream.kind \in {"rejected", "status", "notJson", "noChoices"}
    \/ upstream.kind = "completion" /\ ~upstream.hasContent
    \/ upstream.kind = "completion" /\ upstream.content \in NotJsonContents

ConvertFailure == backendResponse.status = 0 \/ BackendFailure

\* /convert has responded with a status and a body that agree: success with
\* the JSON, or a failure with a message
Responded ==
    /\ backendResponse.status \in {200, 400, 500}
    /\ backendResponse.body.success <=> backendResponse.status = 200
    /\ backendResponse.body.success => backendResponse.body.json # Undef
    /\ ~backendResponse.body.success => backendResponse.body.error # <<>>
    /\ BackendFailure => ~backendResponse.body.success

\* C17, for every provider but the mock: convertPromptToJSON always returns
\* and /convert always responds; every failure gives success = false with a
\* message, and success = true carries the generated JSON.  With the mock
\* provider a failure gives the mock's JSON with success = true.
C17_StructuredResultExceptMockFallback ==
    /\ convPc = "responded" => Responded
    /\ convPc = "returned" =>
          /\ backendResponse.status # 0 => Responded
          /\ convResponse # NoConvertResponse
          /\ convResponse.success =>
                convResponse.json =
                    IF ConvertFailure THEN mockJson(convRequest.prompt)
                    ELSE backendResponse.body.json
          /\ ~convResponse.success =>
                convResponse.error # <<>> /\ convResponse.json = Null
          /\ ConvertFailure =>
                IF convRequest.provider = "mock"
                THEN convResponse = mockConvertPromptToJSON(convRequest.prompt)
                ELSE ~convResponse.success

\* C17 as stated: every failure gives success = false with a message
C17_EveryFailureIsUnsuccessful ==
    convPc = "returned" /\ ConvertFailure =>
        ~convResponse.success /\ convResponse.error # <<>>

\* a completion that is no JSON has come back as a failure
C17_ReturnedFailureOfNonJson ==
    /\ convPc = "returned"
    /\ convRequest.provider = "gemini"
    /\ upstream.content = <<"n", "o">>
    /\ backendResponse = BackendResponse(500, FALSE, Undef, <<SyntaxErrorMessage>>)
    /\ ~convResponse.success
    /\ convResponse.error # <<>>

-----------------------------------------------------------------------------
(* Validating templates of the shape {"key": BODY} and texts that are no    *)
(* JSON                                                                     *)

sKey   == <<"k", "e", "y">>
sValue == <<"v", "a", "l", "u", "e">>

KeyTemplate(body) == <<"{", "\"">> \o sKey \o <<"\"", ":", " ">> \o body \o <<"}">>

\* "{{value}}"   {{value}}   {{json value}}   "{{value}"   {"key": "{{value}}"}   1
TemplateBodies ==
    { <<"\"">> \o sOpen \o sValue \o sClose \o <<"\"">>,
      sOpen \o sValue \o sClose,
      sOpen \o sJson \o <<" ">> \o sValue \o sClose,
      <<"\"">> \o sOpen \o sValue \o <<"}", "\"">>,
      KeyTemplate(<<"\"">> \o sOpen \o sValue \o sClose \o <<"\"">>),
      <<"1">> }

\* {"key": BODY}, the test's template without its last brace, and plain texts
SyntaxTemplates ==
    {KeyTemplate(b) : b \in TemplateBodies}
    \cup { <<"{", "\"">> \o sKey \o <<"\"", ":", " ", "\"">> \o sOpen \o sValue \o <<"}", "\"">>,
           sOpen \o sValue \o sClose,
           <<"x">> \o sOpen \o sValue \o <<"}">>,
           <<"x">> \o sClose }

\* {}   {value: "v"}   {value: 1}   {value: ["v"]}
SuppliedVariable(n) ==
    CASE n = 1 -> <<>>
      [] n = 2 -> << <<sValue, Str(<<"v">>)>> >>
      [] n = 3 -> << <<sValue, Num(1)>> >>
      [] n = 4 -> << <<sValue, Arr(<<Str(<<"v">>)>>)>> >>

InitSyntax ==
    \E t \in SyntaxTemplates, n \in 1..4 :
        EngineStart(t, Context(SuppliedVariable(n), <<>>, <<>>))

SpecSyntax == InitSyntax /\ [][NextEngine]_vars

Balanced(t) == countFrom(t, sOpen, 1) = countFrom(t, sClose, 1)

\* the context supplies the template's variables and the template renders
\* to valid JSON with them
ValidJsonOnceSupplied(t, ctx) ==
    /\ \A i \in 1..Len(extractVariables(t)) : HasKey(ctx.variables, extractVariables(t)[i])
    /\ renderJsonTemplate(t, ctx).kind = "value"

\* C18: validateTemplate never throws; it reports valid = false with a
\* non-empty error list when the counts of {{ and }} differ, and valid = true
\* for every balanced template that yields valid JSON once its variables
\* are supplied.
C18_ValidWhenBalancedAndJsonOnceSupplied ==
    op = "validateTemplate" =>
        /\ result.kind \in {"valid", "invalid"}
        /\ ~Balanced(templateString) => result.kind = "invalid" /\ result.message # <<>>
        /\ Balanced(templateString) /\ ValidJsonOnceSupplied(templateString, context) =>
              result.kind = "valid"

\* the test's template {"key": "{{value}}"} has been judged valid
C18_ValidatedQuotedToken ==
    /\ op = "validateTemplate"
    /\ templateString = KeyTemplate(<<"\"">> \o sOpen \o sValue \o sClose \o <<"\"">>)
    /\ result.kind = "valid"
    /\ result.message = <<>>

-----------------------------------------------------------------------------
(* Compiling with values that hold template syntax themselves               *)

TokenB == sOpen \o sB \o sClose

\* v   {{b}}   {{json b}}   {{#if b}}x{{/if}}
StageValues ==
    { <<"v">>,
      TokenB,
      sOpen \o sJson \o <<" ">> \o sB \o sClose,
      sIfOpen \o <<" ">> \o sB \o sClose \o <<"x">> \o sIfClose }

IfBlock(flag, content) == sIfOpen \o <<" ">> \o flag \o sClose \o content \o sIfClose

VariableA   == sOpen \o sA \o sClose
JsonOfA     == sOpen \o sJson \o <<" ">> \o sA \o sClose
DateOfAIfF  == IfBlock(sF, sOpen \o sFormatDate \o <<" ">> \o sA \o sClose)
VariableAIfF == IfBlock(sF, VariableA)

StageTemplates == {VariableA, JsonOfA, DateOfAIfF, VariableAIfF}

\* the flag f: absent, true, false
StageFlags ==
    { <<>>,
      << <<sF, Bool(TRUE)>> >>,
      << <<sF, Bool(FALSE)>> >> }

InitStages ==
    \E t \in StageTemplates, v \in StageValues, cs \in StageFlags :
        EngineStart(t, Context(<< <<sA, Str(v)>>, <<sB, Str(<<"w">>)>> >>, <<>>, cs))

SpecStages == InitStages /\ [][NextEngine]_vars

FlagF == Truthy(Get(context.conditionals, sF))

ValueOfA == Get(context.variables, sA).v

\* C19: compile runs the conditional stage, then the helper stage, then the
\* variable stage, each once: a helper call inside a removed block is not
\* evaluated, a token in a helper's output is interpolated, and what the
\* variable stage puts in is left as it is.
C19_StagesInOrderOnce ==
    op = "compile" =>
        /\ templateString = VariableA => result = TextResult(ValueOfA)
        /\ templateString = JsonOfA =>
              result = TextResult(<<"\"">> \o (IF ValueOfA = TokenB THEN <<"w">> ELSE ValueOfA)
                                          \o <<"\"">>)
        /\ templateString = DateOfAIfF =>
              IF FlagF THEN result.kind = "error" ELSE result = TextResult(<<>>)
        /\ templateString = VariableAIfF =>
              result = TextResult(IF FlagF THEN ValueOfA ELSE <<>>)

\* a block whose helper call would throw has been removed without an error
C19_RemovedBlockNotEvaluated ==
    /\ op = "compile"
    /\ templateString = DateOfAIfF
    /\ ValueOfA = TokenB
    /\ ~FlagF
    /\ result = TextResult(<<>>)

-----------------------------------------------------------------------------
(* Compiling conditional blocks over flags of every kind of value           *)

\* true   false   ""   "v"   0   1   null   []   {}
FlagValue(n) ==
    CASE n = 1 -> Bool(TRUE)
      [] n = 2 -> Bool(FALSE)
      [] n = 3 -> Str(<<>>)
      [] n = 4 -> Str(<<"v">>)
      [] n = 5 -> Num(0)
      [] n = 6 -> Num(1)
      [] n = 7 -> Null
      [] n = 8 -> Arr(<<>>)
      [] n = 9 -> Obj(<<>>)

FlagNames == {sF, sConstructor}

\* x   x, a line break, y
BlockContents == {<<"x">>, <<"x", "\n", "y">>}

\* the flag is absent (n = 0), or holds FlagValue(n) in the map named by place
FlagContext(flag, n, place) ==
    LET m == IF n = 0 THEN <<>> ELSE << <<flag, FlagValue(n)>> >> IN
    Context(IF place = "variables" THEN m ELSE <<>>,
            IF place = "defaults" THEN m ELSE <<>>,
            IF place = "conditionals" THEN m ELSE <<>>)

InitConditionals ==
    \E flag \in FlagNames, content \in BlockContents, n \in 0..9,
       place \in {"variables", "defaults", "conditionals"} :
        EngineStart(<<"<">> \o IfBlock(flag, content) \o <<">">>, FlagContext(flag, n, place))

SpecConditionals == InitConditionals /\ [][NextEngine]_vars

\* C20: compile replaces the block {{#if flag}}content{{/if}} by content when
\* the merged context's value for flag is truthy and by the empty text when
\* it is falsy or absent.
C20_BlockFollowsTruthiness ==
    op = "compile" =>
        \A flag \in FlagNames, content \in BlockContents :
            templateString = <<"<">> \o IfBlock(flag, content) \o <<">">> =>
                result = TextResult(<<"<">>
                                    \o (IF Truthy(Precedence(context, flag)) THEN content
                                        ELSE <<>>)
                                    \o <<">">>)

\* a block whose flag is the empty array, a truthy value, has been replaced
\* by its content
C20_KeptBlockOfTruthyFlag ==
    /\ op = "compile"
    /\ templateString = <<"<">> \o IfBlock(sF, <<"x", "\n", "y">>) \o <<">">>
    /\ Get(context.defaults, sF) = Arr(<<>>)
    /\ result = TextResult(<<"<", "x", "\n", "y", ">">>)

-----------------------------------------------------------------------------
(* Compiling calls of helpers that are not registered                       *)

sUpper == <<"u", "p", "p", "e", "r">>

\* {{upper a}}   {{if a}}   {{upper a.b}}
UnregisteredCalls ==
    { sOpen \o sUpper \o <<" ">> \o sA \o sClose,
      sOpen \o <<"i", "f", " ">> \o sA \o sClose,
      sOpen \o sUpper \o <<" ">> \o sA \o <<".">> \o sB \o sClose }

\* what stands before and after the call: nothing, text, a variable
Around == {<<>>, <<"x">>, VariableA}

\* {}   {a: "v"}   {a: {b: "w"}}   {upper: "U", a: "v"}
CallVariables(n) ==
    CASE n = 1 -> <<>>
      [] n = 2 -> << <<sA, Str(<<"v">>)>> >>
      [] n = 3 -> << <<sA, Obj(<< <<sB, Str(<<"w">>)>> >>)>> >>
      [] n = 4 -> << <<sUpper, Str(<<"U">>)>>, <<sA, Str(<<"v">>)>> >>

InitUnregistered ==
    \E pre \in Around, call \in UnregisteredCalls, post \in Around, n \in 1..4 :
        EngineStart(pre \o call \o post, Context(CallVariables(n), <<>>, <<>>))

SpecUnregistered == InitUnregistered /\ [][NextEngine]_vars

\* what compile makes of a piece of Around
Compiled(piece, ctx) ==
    IF piece = VariableA /\ HasKey(ctx.variables, sA)
    THEN StringOf(Get(ctx.variables, sA))
    ELSE piece

====
